---- MODULE Spec2Model ----
(***************************************************************************)
(* A model of the korea_incubator integration:                             *)
(*   - get_value_from_path   (custom_components/korea_incubator/utils.py)  *)
(*   - parse_date_value      (custom_components/korea_incubator/utils.py)  *)
(*   - convert_coordinates, validate_coordinates and the TM projection     *)
(*     of CoordinateConverter (kakaomap/coordinates.py)                    *)
(*   - the kakaomap step of the config flow (config_flow.py)               *)
(*   - the properties of the entities (sensor.py, binary_sensor.py)        *)
(*   - async_update of the devices (<service>/device.py)                   *)
(*   - async_setup_entry and async_unload_entry (__init__.py)              *)
(*   - KepcoApiClient._request (kepco/api.py) and                          *)
(*     SafetyAlertApiClient.async_get_safety_alerts (safety_alert/api.py)  *)
(* Each part has its own specification over the shared variables; the      *)
(* variables of the other parts keep their idle values.                    *)
(*                                                                         *)
(* Python strings that the code inspects character by character (paths,    *)
(* raw date strings) are sequences of one-character strings.  JSON-like    *)
(* values are tagged records: [t |-> "none"], [t |-> "str", v |-> ...],     *)
(* [t |-> "int", v |-> ...], [t |-> "list", v |-> <<...>>] and             *)
(* [t |-> "dict", v |-> f] with f a function from keys to values.          *)
(***************************************************************************)
EXTENDS Integers, Sequences, FiniteSets, TLC

VARIABLES
    \* ---- get_value_from_path(data, path) ----
    data,          \* argument: the nested structure
    path,          \* argument: the path string
    keys,          \* local: path.split(".")
    ki,            \* position of the for loop in keys (next key to take)
    value,         \* local: the current value
    pc,            \* "call" | "loop" | "returned" | "raised" | "idle"
    result,        \* the returned value (once pc = "returned")
    exc,           \* the exception that left the call (once pc = "raised")
    \* ---- parse_date_value(raw_value, current_year) ----
    raw_value,     \* argument
    current_year,  \* argument, None by default; then the local current_year
    now_year,      \* environment: datetime.now().year
    default_tz,    \* environment: homeassistant.util.dt.DEFAULT_TIME_ZONE
    date_value,    \* local "value": raw_value.strip()
    parsed_dt,     \* local: None or the datetime built by the pattern that matched
    fields,        \* locals year, month, day, hour, minute, second of that pattern
    dpc,           \* "call" | "p1" .. "p13" | "final" | "returned" | "raised" | "idle"
    dret,          \* the returned value (once dpc = "returned")
    dexc,          \* the exception that left the call (once dpc = "raised")
    \* ---- convert_coordinates(coords, from_system, to_system) ----
    heap,          \* the dict objects, by reference (a reference is an index)
    coords,        \* argument: reference of the coordinate dict
    from_system,   \* argument
    to_system,     \* argument
    cpc,           \* "call" | "returned" | "raised" | "mutated" | "idle"
    cret,          \* reference of the returned dict (0: none)
    cexc,          \* the exception that left the call
    projections,   \* calls of CoordinateConverter.wgs84_to_wcongnamul / wcongnamul_to_wgs84
    \* ---- validate_coordinates(coords, coord_system) ----
    vcoords,       \* argument coords: the dict itself
    coord_system,  \* argument
    vpc,           \* "call" | "returned" | "idle"
    vret,          \* the returned bool
    \* ---- _tm_to_geodetic(_geodetic_to_tm(lon, lat)) ----
    tm_lon,        \* argument longitude, micro-degrees
    tm_lat,        \* argument latitude, micro-degrees
    tm_xy,         \* the projected (x, y), metres
    tm_back,       \* the recovered (longitude, latitude), micro-degrees
    tpc,           \* "call" | "projected" | "recovered" | "idle"
    \* ---- a caller of parse_date_value and convert_coordinates ----
    call_args,     \* the arguments of the call that is running or ran last
    parse_log,     \* the finished calls of parse_date_value: arguments and result
    convert_log,   \* the finished calls of convert_coordinates: arguments and outcome
    ncalls,        \* calls made so far
    \* ---- KoreaConfigFlow.async_step_kakaomap(user_input) ----
    user_input,    \* argument: the submitted fields
    errors,        \* local errors: the keys set
    conversions,   \* calls of convert_coordinates
    lookups,       \* calls of client.async_coordinate_to_address
    entry_created, \* async_create_entry was returned
    fpc,           \* "start" | "lookup" | "form" | "entry" | "idle"
    \* ---- an entity whose property is read ----
    entity,        \* "KoreaSensor" | "SafetyAlertSensor"
    coordinator_data, \* coordinator.data
    device_class,  \* _attr_device_class
    value_translation, \* a _value_translation is set
    today,         \* environment: date.today()
    ha_zone,       \* environment: homeassistant.util.dt.DEFAULT_TIME_ZONE
    read_prop,     \* the property read
    reading,       \* what the read gave: a value or an exception
    device_available, \* self._device.available
    last_update_success, \* self.coordinator.last_update_success
    available_seen, \* the pairs <<device.available, last_update_success>> that available was read under
    spc,           \* "ready" | "read" | "idle"
    \* ---- a device whose async_update is called ----
    service_name,  \* the service of the device
    available,     \* self._available
    device_data,   \* self.data
    responses,     \* the responses the current call has got so far
    api_raised,    \* the exception a request of the last call raised
    caught,        \* the exception an except clause of the last call caught
    update_result, \* how the last call ended
    nupdates,      \* the number of calls so far
    upc,           \* "idle" | "await"
    \* ---- a config entry that is set up and unloaded ----
    entry_service, \* entry.data['service'] of the last setup
    device_session, \* the session of the device of the last setup: "none" | "open" | "closed"
    session_closes, \* the number of times that session was closed
    coordinator_created, \* the last setup created a DataUpdateCoordinator
    record_stored, \* the last setup stored a record in hass.data[DOMAIN]
    hass_data,     \* the entry ids that have a record in hass.data[DOMAIN]
    setup_result,  \* how the last setup ended: "True" | "False" | the exception | "none"
    failed_step,   \* the step of the last setup that failed
    login_result,  \* what the initial login of the last setup gave
    unload_ok,     \* the result of the last async_unload_entry
    nsetups,       \* the number of setups so far
    leaked,        \* the sessions of earlier setups that were left open
    epc,           \* "idle" | "login" | "update" | "refresh" | "loaded"
    \* ---- KepcoApiClient._request(method, url, **kwargs) ----
    k_url,         \* argument: the url of the call
    k_credentials, \* self._username and self._password are set
    k_first,       \* the first request: NoResponse | TransportError | the status
    k_retry,       \* the request after the re-login, likewise
    k_login,       \* what async_login gave: "none" | "True" | "False" | the exception
    k_requests,    \* the API requests the call has sent
    k_logins,      \* the calls of async_login the call has made
    k_result,      \* the returned value
    k_exc,         \* the exception that left the call
    k_calls,       \* the number of calls so far
    kpc,           \* "idle" | "request" | "login" | "retry" | "returned" | "raised"
    \* ---- SafetyAlertApiClient.async_get_safety_alerts(area_code, area_code2, area_code3) ----
    a_codes,       \* arguments area_code, area_code2, area_code3
    a_payload,     \* local payload['searchInfo']: the three area codes
    a_status,      \* response.status: NoResponse | TransportError | the status
    a_error,       \* the exception raised inside the try block
    a_result,      \* how the call ended
    a_calls,       \* the number of calls so far
    apc,           \* "idle" | "post" | "ended"
    \* ---- a reception-area sensor of the safety alert service ----
    alert_index,   \* the alert the sensor shows: 0 (latest), 1, 2
    area_response, \* the response the last update of the device got
    area_data,     \* coordinator.data
    area_reading,  \* what the last read of native_value gave
    arpc,          \* "ready" | "read" | "idle"
    \* ---- validate_coordinates and convert_coordinates(c, 'WGS84', 'WCONGNAMUL') ----
    wgs_lon,       \* the longitude of c, micro-degrees
    wgs_lat,       \* the latitude of c, micro-degrees
    wgs_accepted,  \* validate_coordinates(c, 'WGS84')
    wgs_xy,        \* the converted (x, y), metres
    result_valid,  \* validate_coordinates(result, 'WCONGNAMUL')
    wpc            \* "call" | "validated" | "converted" | "checked" | "idle"

pathVars == <<data, path, keys, ki, value, pc, result, exc>>

dateVars == <<raw_value, current_year, now_year, default_tz, date_value,
              parsed_dt, fields, dpc, dret, dexc>>

coordVars == <<heap, coords, from_system, to_system, cpc, cret, cexc,
               projections>>

validateVars == <<vcoords, coord_system, vpc, vret>>

tmVars == <<tm_lon, tm_lat, tm_xy, tm_back, tpc>>

pureVars == <<call_args, parse_log, convert_log, ncalls>>

flowVars == <<user_input, errors, conversions, lookups, entry_created, fpc>>

sensorVars == <<entity, coordinator_data, device_class, value_translation,
                today, ha_zone, read_prop, reading, device_available,
                last_update_success, available_seen, spc>>

deviceVars == <<service_name, available, device_data, responses, api_raised,
                caught, update_result, nupdates, upc>>

entryVars == <<entry_service, device_session, session_closes,
               coordinator_created, record_stored, hass_data, setup_result,
               failed_step, login_result, unload_ok, nsetups, leaked, epc>>

kepcoVars == <<k_url, k_credentials, k_first, k_retry, k_login, k_requests,
               k_logins, k_result, k_exc, k_calls, kpc>>

alertApiVars == <<a_codes, a_payload, a_status, a_error, a_result, a_calls,
                  apc>>

areaVars == <<alert_index, area_response, area_data, area_reading, arpc>>

wgsVars == <<wgs_lon, wgs_lat, wgs_accepted, wgs_xy, result_valid, wpc>>

\* the variables a call of one function leaves alone: those of the others
nonPathVars == <<dateVars, coordVars, validateVars, tmVars, pureVars,
                 flowVars, sensorVars, deviceVars, entryVars, kepcoVars,
                 alertApiVars, areaVars, wgsVars>>

nonDateVars == <<pathVars, coordVars, validateVars, tmVars, pureVars,
                 flowVars, sensorVars, deviceVars, entryVars, kepcoVars,
                 alertApiVars, areaVars, wgsVars>>

nonCoordVars == <<pathVars, dateVars, validateVars, tmVars, pureVars,
                  flowVars, sensorVars, deviceVars, entryVars, kepcoVars,
                  alertApiVars, areaVars, wgsVars>>

nonValidateVars == <<pathVars, dateVars, coordVars, tmVars, pureVars,
                     flowVars, sensorVars, deviceVars, entryVars, kepcoVars,
                     alertApiVars, areaVars, wgsVars>>

nonTmVars == <<pathVars, dateVars, coordVars, validateVars, pureVars,
               flowVars, sensorVars, deviceVars, entryVars, kepcoVars,
               alertApiVars, areaVars, wgsVars>>

nonPureVars == <<pathVars, dateVars, coordVars, validateVars, tmVars,
                 flowVars, sensorVars, deviceVars, entryVars, kepcoVars,
                 alertApiVars, areaVars, wgsVars>>

nonFlowVars == <<pathVars, dateVars, coordVars, validateVars, tmVars,
                 pureVars, sensorVars, deviceVars, entryVars, kepcoVars,
                 alertApiVars, areaVars, wgsVars>>

nonSensorVars == <<pathVars, dateVars, coordVars, validateVars, tmVars,
                   pureVars, flowVars, deviceVars, entryVars, kepcoVars,
                   alertApiVars, areaVars, wgsVars>>

nonDeviceVars == <<pathVars, dateVars, coordVars, validateVars, tmVars,
                   pureVars, flowVars, sensorVars, entryVars, kepcoVars,
                   alertApiVars, areaVars, wgsVars>>

nonEntryVars == <<pathVars, dateVars, coordVars, validateVars, tmVars,
                  pureVars, flowVars, sensorVars, deviceVars, kepcoVars,
                  alertApiVars, areaVars, wgsVars>>

nonKepcoVars == <<pathVars, dateVars, coordVars, validateVars, tmVars,
                  pureVars, flowVars, sensorVars, deviceVars, entryVars,
                  alertApiVars, areaVars, wgsVars>>

nonAlertApiVars == <<pathVars, dateVars, coordVars, validateVars, tmVars,
                     pureVars, flowVars, sensorVars, deviceVars, entryVars,
                     kepcoVars, areaVars, wgsVars>>

nonAreaVars == <<pathVars, dateVars, coordVars, validateVars, tmVars,
                 pureVars, flowVars, sensorVars, deviceVars, entryVars,
                 kepcoVars, alertApiVars, wgsVars>>

nonWgsVars == <<pathVars, dateVars, coordVars, validateVars, tmVars,
                pureVars, flowVars, sensorVars, deviceVars, entryVars,
                kepcoVars, alertApiVars, areaVars>>

nonDatePureVars == <<pathVars, coordVars, validateVars, tmVars, flowVars,
                     sensorVars, deviceVars, entryVars, kepcoVars,
                     alertApiVars, areaVars, wgsVars>>

nonCoordPureVars == <<pathVars, dateVars, validateVars, tmVars, flowVars,
                      sensorVars, deviceVars, entryVars, kepcoVars,
                      alertApiVars, areaVars, wgsVars>>

vars == <<pathVars, dateVars, coordVars, validateVars, tmVars, pureVars,
          flowVars, sensorVars, deviceVars, entryVars, kepcoVars,
          alertApiVars, areaVars, wgsVars>>


(***************************************************************************)
(* Bounds of the model.                                                    *)
(***************************************************************************)
MaxListLen == 2      \* longest list inside the data
MaxSegs == 3         \* most segments in a generated path
MaxPad == 1          \* most blanks before and after a raw date string

(***************************************************************************)
(* Python values.                                                          *)
(***************************************************************************)
None == [t |-> "none"]
Str(s) == [t |-> "str", v |-> s]
Num(n) == [t |-> "int", v |-> n]
List(s) == [t |-> "list", v |-> s]
Dict(f) == [t |-> "dict", v |-> f]

NoExc == "none"

(***************************************************************************)
(* Python string helpers, on sequences of characters.                      *)
(***************************************************************************)
\* the ASCII decimal digits
AsciiDigits == {"0", "1", "2", "3", "4", "5", "6", "7", "8", "9"}

\* the decimal digits (Unicode category Nd) of the model's alphabet: what int()
\* and the regular expression \d accept.  "ar3" stands for the one character
\* U+0663 (ARABIC-INDIC DIGIT THREE).
DecimalChars == AsciiDigits \cup {"ar3"}

\* "sup2" stands for the one character U+00B2 (SUPERSCRIPT TWO): str.isdigit()
\* is True for it, int() rejects it.
IsDigitChar(c) == c \in DecimalChars \cup {"sup2"}

\* white space for str.strip() and the regular expression \s; "NL" stands for
\* the line feed
Whitespace == {" ", "NL"}

DigitValue(c) ==
    CASE c = "0" -> 0 [] c = "1" -> 1 [] c = "2" -> 2 [] c = "3" -> 3
      [] c = "4" -> 4 [] c = "5" -> 5 [] c = "6" -> 6 [] c = "7" -> 7
      [] c = "8" -> 8 [] c = "9" -> 9 [] c = "ar3" -> 3

\* s in x  (for a one-character x)
Contains(s, c) == \E i \in 1..Len(s) : s[i] = c

\* s.endswith(c)
EndsWith(s, c) == Len(s) > 0 /\ s[Len(s)] = c

\* index of the first c in s (s contains c)
FirstIndex(s, c) == CHOOSE i \in 1..Len(s) : s[i] = c /\ \A j \in 1..(i - 1) : s[j] # c

\* s.split(c): always at least one piece
RECURSIVE Split(_, _)
Split(s, c) ==
    IF ~Contains(s, c) THEN <<s>>
    ELSE LET i == FirstIndex(s, c)
         IN <<SubSeq(s, 1, i - 1)>> \o Split(SubSeq(s, i + 1, Len(s)), c)

\* s.lstrip(c), s.rstrip(c)
RECURSIVE LStrip(_, _)
LStrip(s, c) == IF Len(s) > 0 /\ s[1] = c THEN LStrip(Tail(s), c) ELSE s

RECURSIVE RStrip(_, _)
RStrip(s, c) ==
    IF Len(s) > 0 /\ s[Len(s)] = c THEN RStrip(SubSeq(s, 1, Len(s) - 1), c) ELSE s

\* s.isdigit(): non-empty and every character a digit character
IsDigit(s) == Len(s) > 0 /\ \A i \in 1..Len(s) : IsDigitChar(s[i])

\* value of a non-empty run of ASCII digits
RECURSIVE DigitsValue(_)
DigitsValue(s) ==
    IF Len(s) = 0 THEN 0
    ELSE 10 * DigitsValue(SubSeq(s, 1, Len(s) - 1)) + DigitValue(s[Len(s)])

\* s.strip(): leading and trailing white space removed
RECURSIVE Strip(_)
Strip(s) ==
    IF Len(s) > 0 /\ s[1] \in Whitespace THEN Strip(Tail(s))
    ELSE IF Len(s) > 0 /\ s[Len(s)] \in Whitespace THEN Strip(SubSeq(s, 1, Len(s) - 1))
    ELSE s

\* int(s): surrounding white space is dropped, one optional sign, then one or
\* more decimal digits; anything else is a ValueError.
PyInt(s) ==
    LET t == Strip(s)
        signed == Len(t) > 0 /\ t[1] \in {"-", "+"}
        body == IF signed THEN Tail(t) ELSE t
        ok == Len(body) > 0 /\ \A i \in 1..Len(body) : body[i] \in DecimalChars
    IN IF ~ok THEN [ok |-> FALSE, n |-> 0]
       ELSE [ok |-> TRUE,
             n |-> IF signed /\ t[1] = "-" THEN 0 - DigitsValue(body)
                   ELSE DigitsValue(body)]

\* str(n) for an integer n
RECURSIVE NatToStr(_)
NatToStr(n) ==
    LET d == CHOOSE c \in AsciiDigits : DigitValue(c) = n % 10
    IN IF n < 10 THEN <<d>> ELSE NatToStr(n \div 10) \o <<d>>

IntToStr(n) == IF n < 0 THEN <<"-">> \o NatToStr(0 - n) ELSE NatToStr(n)

(***************************************************************************)
(* The steps of get_value_from_path.                                       *)
(***************************************************************************)
\* dict.get(key)
DictGet(d, key) == IF key \in DOMAIN d.v THEN d.v[key] ELSE None

\* isinstance(v, dict), isinstance(v, (list, tuple))
IsDict(v) == v.t = "dict"
IsList(v) == v.t = "list"

\* seq[index] with Python's negative indices; IndexError outside -n..n-1
IndexInRange(seq, index) == 0 - Len(seq) <= index /\ index < Len(seq)

\* (mutant) a negative index counted from the last element instead of from
\* one past it
PyIndexFromLast(seq, index) ==
    IF index >= 0 THEN seq[index + 1]
    ELSE seq[IF Len(seq) + index = 0 THEN Len(seq) ELSE Len(seq) + index]

PyIndex(seq, index) == IF index >= 0 THEN seq[index + 1] ELSE seq[Len(seq) + index + 1]

\* the outcomes of one loop iteration
Continue(v) == [kind |-> "continue", v |-> v, exc |-> NoExc]
Return(v) == [kind |-> "return", v |-> v, exc |-> NoExc]
Raise(e) == [kind |-> "raise", v |-> None, exc |-> e]

\* the condition of the first branch: "[" in key and key.endswith("]")
IsBracketKey(key) == Contains(key, "[") /\ EndsWith(key, "]")

\* (mutant) the sign is not stripped: key.isdigit()
IsDigitKeyUnsigned(key) == IsDigit(key)

\* the condition of the second branch: key.lstrip("-").isdigit()
IsDigitKey(key) == IsDigit(LStrip(key, "-"))

\* value[index] inside try/except IndexError
IndexOrNone(v, index) ==
    IF IsList(v)
    THEN IF IndexInRange(v.v, index) THEN Continue(PyIndex(v.v, index)) ELSE Return(None)
    ELSE Return(None)

\* branch 1: items[0], items[-1]
BracketStep(v, key) ==
    LET pos == FirstIndex(key, "[")
        array_key == SubSeq(key, 1, pos - 1)
        index_part == SubSeq(key, pos + 1, Len(key))
        index_str == RStrip(index_part, "]")
        index == PyInt(index_str)
    IN IF ~index.ok THEN Return(None)
       ELSE IF ~IsDict(v) THEN Return(None)
       ELSE IndexOrNone(DictGet(v, array_key), index.n)

\* branch 2: items.0, items.-1; int(key) is outside any try
DigitStep(v, key) ==
    LET index == PyInt(key)
    IN IF ~index.ok THEN Raise("ValueError")
       ELSE IndexOrNone(v, index.n)

\* branch 3: a dictionary key
DictStep(v, key) == IF IsDict(v) THEN Continue(DictGet(v, key)) ELSE Return(None)

\* one iteration of the loop body, after the None check
StepKey(v, key) ==
    IF IsBracketKey(key) THEN BracketStep(v, key)
    ELSE IF IsDigitKey(key) THEN DigitStep(v, key)
    ELSE DictStep(v, key)

\* the whole call, as a function of its arguments: the outcome and the number
\* of keys whose branch was evaluated
RECURSIVE RunKeys(_, _, _)
RunKeys(v, ks, n) ==
    IF Len(ks) = 0 THEN [kind |-> "return", v |-> v, exc |-> NoExc, evaluated |-> n]
    ELSE IF v = None THEN [kind |-> "return", v |-> None, exc |-> NoExc, evaluated |-> n]
    ELSE LET o == StepKey(v, Head(ks))
         IN IF o.kind = "continue" THEN RunKeys(o.v, Tail(ks), n + 1)
            ELSE [kind |-> o.kind, v |-> o.v, exc |-> o.exc, evaluated |-> n + 1]

Resolve(d, p) == RunKeys(d, Split(p, "."), 0)

(***************************************************************************)
(* Inputs of get_value_from_path.                                          *)
(***************************************************************************)
SeqsUpTo(S, n) == UNION {[1..k -> S] : k \in 0..n}

\* a key that is a plain name, a key that looks like a number
KeyNames == {<<"a">>, <<"0">>}

Leaf == {None, Str("v")}

Level1 ==
    Leaf
    \cup {List(s) : s \in SeqsUpTo(Leaf, MaxListLen)}
    \cup {Dict(k :> x) : k \in KeyNames, x \in Leaf}

DataSet ==
    Level1
    \cup {Dict(k :> x) : k \in KeyNames, x \in Level1}
    \cup {List(<<x>>) : x \in Level1}
    \cup {List(<<Str("v"), x>>) : x \in Level1}

\* index strings: every index that is in range for a list of MaxListLen, and
\* one beyond on each side
IndexStrs == {IntToStr(i) : i \in (0 - MaxListLen - 1)..MaxListLen}

\* bracket contents that are no integer
BadIndexStrs == {<<"x">>, <<>>, <<"-", "-", "1">>}

\* segments that are digit strings for isdigit() and not for int()
OddDigitSegs == {<<"-", "-", "1">>, <<"sup2">>, <<"-", "sup2">>}

BracketSegs ==
    {k \o <<"[">> \o i \o <<"]">> : k \in KeyNames, i \in IndexStrs \cup BadIndexStrs}
    \cup {<<"a", "[", "0", "]", "]">>, <<"a", "[", "0">>, <<"[", "0", "]">>}

Segments == KeyNames \cup {<<>>, <<"-">>, <<"b">>} \cup IndexStrs \cup OddDigitSegs \cup BracketSegs

\* segments that may stand anywhere in a longer path
NavSegs == {<<"a">>, <<"0">>, <<"-", "-", "1">>, <<"a", "[", "-", "1", "]">>}

RECURSIVE JoinDots(_)
JoinDots(segs) ==
    IF Len(segs) = 1 THEN segs[1]
    ELSE segs[1] \o <<".">> \o JoinDots(Tail(segs))

\* paths of up to MaxSegs segments, at most one of them from outside NavSegs
SegSeqs ==
    UNION {{s \in [1..n -> Segments] :
              \E p \in 1..n : \A j \in 1..n : j # p => s[j] \in NavSegs} : n \in 1..MaxSegs}

PathSet == {JoinDots(s) : s \in SegSeqs}

(***************************************************************************)
(* get_value_from_path as a state machine: one action per branch of the    *)
(* loop body.                                                              *)
(***************************************************************************)
\* keys = path.split("."); value = data
PathCall ==
    /\ pc = "call"
    /\ keys' = Split(path, ".")
    /\ ki' = 1
    /\ value' = data
    /\ pc' = "loop"
    /\ UNCHANGED <<data, path, result, exc, nonPathVars>>

\* the effect of an outcome of the loop body
Apply(o) ==
    /\ CASE o.kind = "continue" ->
              value' = o.v /\ ki' = ki + 1 /\ pc' = "loop" /\ UNCHANGED <<result, exc>>
         [] o.kind = "return" ->
              result' = o.v /\ pc' = "returned" /\ ki' = ki + 1 /\ UNCHANGED <<value, exc>>
         [] o.kind = "raise" ->
              exc' = o.exc /\ pc' = "raised" /\ ki' = ki + 1 /\ UNCHANGED <<value, result>>
    /\ UNCHANGED <<data, path, keys, nonPathVars>>

InLoop == pc = "loop" /\ ki <= Len(keys)

\* (mutant) the None check is missing: the key is evaluated against None
PathNoneFallThrough ==
    /\ InLoop
    /\ value = None
    /\ Apply(StepKey(value, keys[ki]))

\* if value is None: return None
PathNoneReturn ==
    /\ InLoop
    /\ value = None
    /\ result' = None
    /\ pc' = "returned"
    /\ UNCHANGED <<data, path, keys, ki, value, exc, nonPathVars>>

PathBracket ==
    /\ InLoop
    /\ value # None
    /\ IsBracketKey(keys[ki])
    /\ Apply(BracketStep(value, keys[ki]))

PathDigit ==
    /\ InLoop
    /\ value # None
    /\ ~IsBracketKey(keys[ki])
    /\ IsDigitKey(keys[ki])
    /\ Apply(DigitStep(value, keys[ki]))

PathDict ==
    /\ InLoop
    /\ value # None
    /\ ~IsBracketKey(keys[ki])
    /\ ~IsDigitKey(keys[ki])
    /\ Apply(DictStep(value, keys[ki]))

\* the loop is over: return value
PathReturn ==
    /\ pc = "loop"
    /\ ki > Len(keys)
    /\ result' = value
    /\ pc' = "returned"
    /\ UNCHANGED <<data, path, keys, ki, value, exc, nonPathVars>>

PathNext ==
    \/ PathCall
    \/ PathNoneReturn
    \/ PathBracket
    \/ PathDigit
    \/ PathDict
    \/ PathReturn

(***************************************************************************)
(* parse_date_value: datetimes, time zones and the regular expressions.    *)
(***************************************************************************)
\* a time zone object: its zone name and the library it comes from
Tz(zone, lib) == [zone |-> zone, lib |-> lib]

\* tzinfo of a naive datetime
Naive == Tz("naive", "none")

\* const.py: TZ_ASIA_SEOUL = pytz.timezone("Asia/Seoul")
TZ_ASIA_SEOUL == Tz("Asia/Seoul", "pytz")

\* minutes east of UTC of Korea Standard Time
KstOffsetMinutes == 540

\* minutes east of UTC that a pytz zone object reports when it is handed to the
\* datetime constructor as tzinfo= (never localize()d): the zone's first entry,
\* for Asia/Seoul local mean time, LMT+8:28
SeoulLmtOffsetMinutes == 508

HonoluluOffsetMinutes == 0 - 600

\* utcoffset() of a datetime of the current era carrying tz
UtcOffset(tz) ==
    CASE tz = TZ_ASIA_SEOUL -> SeoulLmtOffsetMinutes
      [] tz = Tz("Asia/Seoul", "zoneinfo") -> KstOffsetMinutes
      [] tz = Tz("UTC", "zoneinfo") -> 0
      [] tz = Tz("Pacific/Honolulu", "zoneinfo") -> HonoluluOffsetMinutes

\* the values homeassistant.util.dt.DEFAULT_TIME_ZONE takes in the model
DefaultTimeZones ==
    {Tz("UTC", "zoneinfo"), Tz("Asia/Seoul", "zoneinfo"), Tz("Pacific/Honolulu", "zoneinfo")}

IsLeap(y) == y % 4 = 0 /\ (y % 100 # 0 \/ y % 400 = 0)

DaysInMonth(y, m) ==
    IF m = 2 THEN (IF IsLeap(y) THEN 29 ELSE 28)
    ELSE IF m \in {4, 6, 9, 11} THEN 30 ELSE 31

\* the arguments datetime() accepts; it raises ValueError for all others
ValidDateTime(y, m, d, h, mi, sec) ==
    /\ 1 <= y /\ y <= 9999
    /\ 1 <= m /\ m <= 12
    /\ 1 <= d /\ d <= DaysInMonth(y, m)
    /\ 0 <= h /\ h <= 23
    /\ 0 <= mi /\ mi <= 59
    /\ 0 <= sec /\ sec <= 59

DateTime(y, m, d, h, mi, sec, tz) ==
    [t |-> "datetime", year |-> y, month |-> m, day |-> d,
     hour |-> h, minute |-> mi, second |-> sec, tzinfo |-> tz]

\* datetime(year, month, day, hour, minute, second, tzinfo=tz)
PyDatetime(y, m, d, h, mi, sec, tz) ==
    IF ValidDateTime(y, m, d, h, mi, sec)
    THEN [ok |-> TRUE, dt |-> DateTime(y, m, d, h, mi, sec, tz)]
    ELSE [ok |-> FALSE, dt |-> None]

\* the day before and the day after a date
PrevDay(dt) ==
    IF dt.day > 1 THEN [dt EXCEPT !.day = dt.day - 1]
    ELSE IF dt.month > 1
         THEN [dt EXCEPT !.month = dt.month - 1, !.day = DaysInMonth(dt.year, dt.month - 1)]
         ELSE [dt EXCEPT !.year = dt.year - 1, !.month = 12, !.day = 31]

NextDay(dt) ==
    IF dt.day < DaysInMonth(dt.year, dt.month) THEN [dt EXCEPT !.day = dt.day + 1]
    ELSE IF dt.month < 12 THEN [dt EXCEPT !.month = dt.month + 1, !.day = 1]
         ELSE [dt EXCEPT !.year = dt.year + 1, !.month = 1, !.day = 1]

\* dt.astimezone(tz) for an aware dt: the same instant on tz's wall clock
\* (the offsets of the model are less than a day apart)
AsTimezone(dt, tz) ==
    LET total == dt.hour * 60 + dt.minute + UtcOffset(tz) - UtcOffset(dt.tzinfo)
        day == IF total < 0 THEN PrevDay(dt) ELSE IF total >= 1440 THEN NextDay(dt) ELSE dt
        mins == IF total < 0 THEN total + 1440 ELSE IF total >= 1440 THEN total - 1440 ELSE total
    IN [day EXCEPT !.hour = mins \div 60, !.minute = mins % 60, !.tzinfo = tz]

\* homeassistant.util.dt.as_local(dattim):
\*     if dattim.tzinfo == DEFAULT_TIME_ZONE: return dattim
\*     if dattim.tzinfo is None: dattim = dattim.replace(tzinfo=DEFAULT_TIME_ZONE)
\*     return dattim.astimezone(DEFAULT_TIME_ZONE)
AsLocal(dt, tz) ==
    IF dt.tzinfo = tz THEN dt
    ELSE IF dt.tzinfo = Naive THEN AsTimezone([dt EXCEPT !.tzinfo = tz], tz)
    ELSE AsTimezone(dt, tz)

\* ---- regular expressions --------------------------------------------------
\* an element of a pattern: \d{min,max} (always a capturing group in these
\* patterns), \s{min,max} or a literal character; max = -1 is "no limit"
Dg(min, max) == [cls |-> "d", ch |-> "", min |-> min, max |-> max]
Ws(min, max) == [cls |-> "s", ch |-> "", min |-> min, max |-> max]
Lit(c) == [cls |-> "lit", ch |-> c, min |-> 1, max |-> 1]

ElemMatches(e, c) ==
    CASE e.cls = "d" -> c \in DecimalChars
      [] e.cls = "s" -> c \in Whitespace
      [] e.cls = "lit" -> c = e.ch

\* the longest run of at most cap characters from position i that e matches
RECURSIVE RunLen(_, _, _, _)
RunLen(s, i, e, cap) ==
    IF cap = 0 \/ i > Len(s) THEN 0
    ELSE IF ~ElemMatches(e, s[i]) THEN 0
    ELSE 1 + RunLen(s, i + 1, e, cap - 1)

\* a variant without the anchor at the end: the pattern may stop anywhere
AtEndAnywhere(s, i) == TRUE
\* $ : the end of the string, or just before a line feed that ends it
AtEnd(s, i) == i = Len(s) + 1 \/ (i = Len(s) /\ s[i] = "NL")

NoMatch == [ok |-> FALSE, groups |-> <<>>]

\* greedy matching with backtracking of pat[j..] against s[i..], anchored at
\* both ends; groups are the captured digit runs
RECURSIVE MatchFrom(_, _, _, _)
RECURSIVE TryLen(_, _, _, _, _)
MatchFrom(s, i, pat, j) ==
    IF j > Len(pat) THEN [ok |-> AtEnd(s, i), groups |-> <<>>]
    ELSE TryLen(s, i, pat, j,
                RunLen(s, i, pat[j], IF pat[j].max < 0 THEN Len(s) ELSE pat[j].max))

TryLen(s, i, pat, j, n) ==
    IF n < pat[j].min THEN NoMatch
    ELSE LET r == MatchFrom(s, i + n, pat, j + 1)
         IN IF r.ok
            THEN [ok |-> TRUE,
                  groups |-> (IF pat[j].cls = "d" THEN <<SubSeq(s, i, i + n - 1)>> ELSE <<>>)
                             \o r.groups]
            ELSE TryLen(s, i, pat, j, n - 1)

\* re.match(r"^...$", s)
Match(pat, s) == MatchFrom(s, 1, pat, 1)

\* map(int, match.groups())
GroupInts(m) == [i \in 1..Len(m.groups) |-> DigitsValue(m.groups[i])]

\* "nyeon", "wol", "il" stand for the Hangul characters U+B144, U+C6D4, U+C77C
Pattern(k) ==
    CASE k = 1 -> <<Dg(4, 4), Lit("-"), Dg(1, 2), Lit("-"), Dg(1, 2)>>
      [] k = 2 -> <<Dg(4, 4), Dg(2, 2), Dg(2, 2)>>
      [] k = 3 -> <<Dg(4, 4), Lit("/"), Dg(1, 2), Lit("/"), Dg(1, 2)>>
      [] k = 4 -> <<Dg(4, 4), Lit("."), Dg(1, 2), Lit("."), Dg(1, 2)>>
      [] k = 5 -> <<Dg(4, 4), Lit("-"), Dg(1, 2)>>
      [] k = 6 -> <<Dg(4, 4), Lit("."), Dg(1, 2)>>
      [] k = 7 -> <<Dg(4, 4), Dg(2, 2)>>
      [] k = 8 -> <<Dg(1, 2), Lit("/"), Dg(1, 2), Ws(1, -1), Dg(1, 2)>>
      [] k = 9 -> <<Dg(4, 4), Lit("nyeon"), Ws(0, -1), Dg(1, 2), Lit("wol"), Ws(0, -1),
                    Dg(1, 2), Lit("il")>>
      [] k = 10 -> <<Dg(4, 4), Lit("nyeon"), Ws(0, -1), Dg(1, 2), Lit("wol")>>
      [] k = 11 -> <<Dg(1, 2), Lit("/"), Dg(1, 2), Lit("/"), Dg(4, 4)>>
      [] k = 12 -> <<Dg(1, 2), Lit("."), Dg(1, 2), Lit("."), Dg(4, 4)>>
      [] k = 13 -> <<Dg(4, 4), Lit("-"), Dg(1, 2), Lit("-"), Dg(1, 2), Ws(1, -1),
                     Dg(1, 2), Lit(":"), Dg(1, 2), Lit(":"), Dg(1, 2), Lit("."), Dg(1, -1)>>

Patterns == 1..13

\* the locals year, month, day, hour, minute, second a pattern's branch sets
\* from the captured numbers g (cy: the local current_year)
Fields(y, m, d, h, mi, sec) ==
    [year |-> y, month |-> m, day |-> d, hour |-> h, minute |-> mi, second |-> sec]

PatternFields(k, g, cy) ==
    CASE k \in {1, 2, 3, 4, 9} -> Fields(g[1], g[2], g[3], 0, 0, 0)
      [] k \in {5, 6, 7, 10} -> Fields(g[1], g[2], 1, 0, 0, 0)
      [] k = 8 -> Fields(cy, g[1], g[2], g[3], 0, 0)
      [] k \in {11, 12} -> Fields(g[3], g[1], g[2], 0, 0, 0)
      [] k = 13 -> Fields(g[1], g[2], g[3], g[4], g[5], g[6])

\* the tzinfo a pattern's branch gives to datetime(): pattern 1 gives none
PatternTz(k) == IF k = 1 THEN Naive ELSE TZ_ASIA_SEOUL

NoFields == Fields(0, 0, 0, 0, 0, 0)

PcOf(k) ==
    CASE k = 1 -> "p1" [] k = 2 -> "p2" [] k = 3 -> "p3" [] k = 4 -> "p4"
      [] k = 5 -> "p5" [] k = 6 -> "p6" [] k = 7 -> "p7" [] k = 8 -> "p8"
      [] k = 9 -> "p9" [] k = 10 -> "p10" [] k = 11 -> "p11" [] k = 12 -> "p12"
      [] k = 13 -> "p13" [] k = 14 -> "final"

(***************************************************************************)
(* Inputs of parse_date_value.                                             *)
(***************************************************************************)
Years4 == {<<"2", "0", "2", "5">>, <<"2", "0", "2", "4">>, <<"0", "0", "0", "0">>}
Months12 == {<<"1">>, <<"0", "2">>, <<"1", "2">>, <<"1", "3">>, <<"0">>}
Months2 == {<<"0", "1">>, <<"0", "2">>, <<"1", "2">>, <<"1", "3">>, <<"0", "0">>}
Days12 == {<<"1">>, <<"1", "5">>, <<"2", "9">>, <<"3", "0">>, <<"3", "1">>, <<"3", "2">>, <<"0">>}
Days2 == {<<"0", "1">>, <<"1", "5">>, <<"2", "9">>, <<"3", "0">>, <<"3", "1">>, <<"3", "2">>,
          <<"0", "0">>}
Hours12 == {<<"0">>, <<"1", "0">>, <<"2", "3">>, <<"2", "4">>}
TimesOfDay ==
    {<<"1", "4", ":", "3", "0", ":", "0", "0", ".", "0">>,
     <<"2", "3", ":", "5", "9", ":", "5", "9", ".", "1", "2", "3">>,
     <<"2", "4", ":", "0", "0", ":", "0", "0", ".", "0">>,
     <<"1", "0", ":", "6", "0", ":", "0", "0", ".", "5">>,
     <<"1", "0", ":", "0", "0", ":", "6", "0", ".", "5">>,
     <<"1", "4", ":", "3", "0", ":", "0", "0">>}
Gaps == {<<>>, <<" ">>}

Sep3(A, B, C, sep) == {a \o <<sep>> \o b \o <<sep>> \o c : a \in A, b \in B, c \in C}
Sep2(A, B, sep) == {a \o <<sep>> \o b : a \in A, b \in B}

DateShapes ==
    Sep3(Years4, Months12, Days12, "-")
    \cup {y \o m \o d : y \in Years4, m \in Months2, d \in Days2}
    \cup Sep3(Years4, Months12, Days12, "/")
    \cup Sep3(Years4, Months12, Days12, ".")
    \cup Sep2(Years4, Months12, "-")
    \cup Sep2(Years4, Months12, ".")
    \cup {y \o m : y \in Years4, m \in Months2}
    \cup {m \o <<"/">> \o d \o <<" ">> \o h : m \in Months12, d \in Days12, h \in Hours12}
    \cup {y \o <<"nyeon">> \o g \o m \o <<"wol">> \o g \o d \o <<"il">> :
            y \in Years4, m \in Months12, d \in Days12, g \in Gaps}
    \cup {y \o <<"nyeon">> \o g \o m \o <<"wol">> : y \in Years4, m \in Months12, g \in Gaps}
    \cup Sep3(Months12, Days12, Years4, "/")
    \cup Sep3(Months12, Days12, Years4, ".")
    \cup {y \o <<"-">> \o m \o <<"-">> \o d \o <<" ">> \o tod :
            y \in Years4, m \in {<<"0", "2">>, <<"1", "3">>}, d \in {<<"1", "5">>, <<"3", "0">>},
            tod \in TimesOfDay}

\* strings that are no date
Junk ==
    {<<>>, <<" ">>, <<"x">>, <<"i", "n", "v", "a", "l", "i", "d", " ", "d", "a", "t", "e">>,
     <<"2", "0", "2", "5", "-", "0", "1", "-", "1", "5", "x">>,
     <<"x", "2", "0", "2", "5", "-", "0", "1", "-", "1", "5">>,
     <<"2", "0", "2", "5", "-", "0", "1", "-", "1", "5", "5">>,
     <<"2", "0", "2", "5", "-", "0", "1", "-">>,
     <<"2", "0", "2", "5", "0", "1", "1">>,
     <<"2", "0", "2", "5", "0">>,
     <<"2", "0", "2", "5", " ", "0", "1">>,
     <<"2", "0", "2", "5", "nyeon">>,
     <<"0", "1", "/", "1", "5">>,
     <<"2", "0", "2", "ar3", "-", "0", "1", "-", "1", "5">>}

RECURSIVE Blanks(_)
Blanks(n) == IF n = 0 THEN <<>> ELSE <<" ">> \o Blanks(n - 1)

\* every string with up to MaxPad blanks before and after it
Padded(S) == {Blanks(a) \o s \o Blanks(b) : s \in S, a \in 0..MaxPad, b \in 0..MaxPad}

\* the text of a str; not a Python value of the path resolver's data
Text(s) == [t |-> "str", v |-> s]

RawValues == {None, Num(20250115)} \cup {Text(s) : s \in Padded(DateShapes \cup Junk)}

CurrentYears == {None, Num(2024)}
NowYears == {2025}

(***************************************************************************)
(* parse_date_value as a state machine: the entry, one action per pattern  *)
(* block, and the two returns at the end.                                  *)
(***************************************************************************)
DateFrame == UNCHANGED <<raw_value, now_year, default_tz, nonDateVars>>

\* (mutant) no isinstance check: .strip() is called on whatever came in
DateCallUnchecked ==
    /\ dpc = "call"
    /\ IF raw_value.t # "str"
       THEN /\ dpc' = "raised"
            /\ dexc' = "AttributeError"
            /\ UNCHANGED <<current_year, date_value, parsed_dt, fields, dret>>
       ELSE /\ current_year' = IF current_year = None THEN Num(now_year) ELSE current_year
            /\ date_value' = Strip(raw_value.v)
            /\ parsed_dt' = None
            /\ dpc' = "p1"
            /\ UNCHANGED <<fields, dret, dexc>>
    /\ DateFrame

\* lines 165-174: the isinstance check, the default of current_year, strip()
DateCall ==
    /\ dpc = "call"
    /\ IF raw_value.t # "str"
       THEN /\ dret' = None
            /\ dpc' = "returned"
            /\ UNCHANGED <<current_year, date_value, parsed_dt, fields, dexc>>
       ELSE /\ current_year' = IF current_year = None THEN Num(now_year) ELSE current_year
            /\ date_value' = Strip(raw_value.v)
            /\ parsed_dt' = None
            /\ dpc' = "p1"
            /\ UNCHANGED <<fields, dret, dexc>>
    /\ DateFrame

\* (mutant) a pattern block whose ValueError is not caught
TryPatternUncaught(k) ==
    /\ dpc = PcOf(k)
    /\ LET m == Match(Pattern(k), date_value)
       IN IF parsed_dt # None \/ ~m.ok
          THEN /\ dpc' = PcOf(k + 1)
               /\ UNCHANGED <<parsed_dt, fields, dret, dexc>>
          ELSE LET f == PatternFields(k, GroupInts(m), current_year.v)
                   made == PyDatetime(f.year, f.month, f.day, f.hour, f.minute, f.second,
                                      PatternTz(k))
               IN /\ fields' = f
                  /\ IF made.ok
                     THEN /\ parsed_dt' = made.dt
                          /\ dpc' = PcOf(k + 1)
                          /\ UNCHANGED <<dret, dexc>>
                     ELSE /\ dexc' = "ValueError"
                          /\ dpc' = "raised"
                          /\ UNCHANGED <<parsed_dt, dret>>
    /\ UNCHANGED <<current_year, date_value>>
    /\ DateFrame

\* one pattern block: skipped when an earlier pattern has set parsed_dt (the
\* first block has no such test, parsed_dt is None there); on a match the
\* captured numbers become the locals and datetime() is called inside
\* try/except ValueError: return None
TryPattern(k) ==
    /\ dpc = PcOf(k)
    /\ LET m == Match(Pattern(k), date_value)
       IN IF parsed_dt # None \/ ~m.ok
          THEN /\ dpc' = PcOf(k + 1)
               /\ UNCHANGED <<parsed_dt, fields, dret, dexc>>
          ELSE LET f == PatternFields(k, GroupInts(m), current_year.v)
                   made == PyDatetime(f.year, f.month, f.day, f.hour, f.minute, f.second,
                                      PatternTz(k))
               IN /\ fields' = f
                  /\ IF made.ok
                     THEN /\ parsed_dt' = made.dt
                          /\ dpc' = PcOf(k + 1)
                          /\ UNCHANGED <<dret, dexc>>
                     ELSE /\ dret' = None
                          /\ dpc' = "returned"
                          /\ UNCHANGED <<parsed_dt, dexc>>
    /\ UNCHANGED <<current_year, date_value>>
    /\ DateFrame


\* if parsed_dt: return dt_util.as_local(parsed_dt)
DateLocalise ==
    /\ dpc = "final"
    /\ parsed_dt # None
    /\ dret' = AsLocal(parsed_dt, default_tz)
    /\ dpc' = "returned"
    /\ UNCHANGED <<current_year, date_value, parsed_dt, fields, dexc>>
    /\ DateFrame

\* return None
DateReturnNone ==
    /\ dpc = "final"
    /\ parsed_dt = None
    /\ dret' = None
    /\ dpc' = "returned"
    /\ UNCHANGED <<current_year, date_value, parsed_dt, fields, dexc>>
    /\ DateFrame

DateNext ==
    \/ DateCall
    \/ \E k \in Patterns : TryPattern(k)
    \/ DateLocalise
    \/ DateReturnNone

(***************************************************************************)
(* convert_coordinates.                                                    *)
(***************************************************************************)
\* a coordinate value: a number, or the result of a projection, kept as the
\* term "function applied to its two arguments" (the floating-point series of
\* CoordinateConverter are not evaluated)
Number(n) == [k |-> "num", n |-> n]
Projected(fn, axis, a, b) == [k |-> "proj", fn |-> fn, axis |-> axis, a |-> a, b |-> b]

\* CoordinateConverter.wgs84_to_wcongnamul(longitude, latitude) -> (x, y)
wgs84_to_wcongnamul(longitude, latitude) ==
    <<Projected("wgs84_to_wcongnamul", "x", longitude, latitude),
      Projected("wgs84_to_wcongnamul", "y", longitude, latitude)>>

\* CoordinateConverter.wcongnamul_to_wgs84(x, y) -> (longitude, latitude)
wcongnamul_to_wgs84(x, y) ==
    <<Projected("wcongnamul_to_wgs84", "longitude", x, y),
      Projected("wcongnamul_to_wgs84", "latitude", x, y)>>

\* d.get(key, default)
GetOr(d, key, default) == IF key \in DOMAIN d THEN d[key] ELSE default

\* the system labels of the model: the two supported ones, one the class has
\* an ellipsoid for, and one that differs from a supported one in case only
Systems == {"WGS84", "WCONGNAMUL", "BESSEL", "wgs84"}

CoordValues == {Number(127), Number(38), Number(200000)}

CoordKeySets ==
    {{}, {"x", "y"}, {"longitude", "latitude"}, {"longitude", "latitude", "x", "y"}}

CoordDicts == UNION {[K -> CoordValues] : K \in CoordKeySets}

NoError == [type |-> "none", msg |-> <<>>]

CoordFrame == UNCHANGED <<coords, from_system, to_system, nonCoordVars>>

\* the call returns a new dict d
ReturnNewDict(d) ==
    /\ heap' = Append(heap, d)
    /\ cret' = Len(heap) + 1
    /\ cpc' = "returned"
    /\ UNCHANGED cexc

\* (mutant) return coords: the argument itself, not a copy
ConvertIdentityAlias ==
    /\ cpc = "call"
    /\ from_system = to_system
    /\ cret' = coords
    /\ cpc' = "returned"
    /\ UNCHANGED <<heap, cexc, projections>>
    /\ CoordFrame

\* if from_system == to_system: return coords.copy()
ConvertIdentity ==
    /\ cpc = "call"
    /\ from_system = to_system
    /\ ReturnNewDict(heap[coords])
    /\ UNCHANGED projections
    /\ CoordFrame

\* if from_system == 'WGS84' and to_system == 'WCONGNAMUL'
ConvertToWcongnamul ==
    /\ cpc = "call"
    /\ from_system # to_system
    /\ from_system = "WGS84" /\ to_system = "WCONGNAMUL"
    /\ LET c == heap[coords]
           xy == wgs84_to_wcongnamul(GetOr(c, "longitude", GetOr(c, "x", Number(0))),
                                     GetOr(c, "latitude", GetOr(c, "y", Number(0))))
       IN ReturnNewDict(("x" :> xy[1]) @@ ("y" :> xy[2]))
    /\ projections' = projections + 1
    /\ CoordFrame

\* (mutant) the test of to_system is missing
ConvertToWgs84AnyTarget ==
    /\ cpc = "call"
    /\ from_system # to_system
    /\ from_system = "WCONGNAMUL"
    /\ LET c == heap[coords]
           ll == wcongnamul_to_wgs84(GetOr(c, "x", Number(0)), GetOr(c, "y", Number(0)))
       IN ReturnNewDict(("longitude" :> ll[1]) @@ ("latitude" :> ll[2]))
    /\ projections' = projections + 1
    /\ CoordFrame

\* elif from_system == 'WCONGNAMUL' and to_system == 'WGS84'
ConvertToWgs84 ==
    /\ cpc = "call"
    /\ from_system # to_system
    /\ from_system = "WCONGNAMUL" /\ to_system = "WGS84"
    /\ LET c == heap[coords]
           ll == wcongnamul_to_wgs84(GetOr(c, "x", Number(0)), GetOr(c, "y", Number(0)))
       IN ReturnNewDict(("longitude" :> ll[1]) @@ ("latitude" :> ll[2]))
    /\ projections' = projections + 1
    /\ CoordFrame

\* else: raise ValueError(f"Unsupported conversion: {from_system} to {to_system}")
ConvertUnsupported ==
    /\ cpc = "call"
    /\ from_system # to_system
    /\ ~(from_system = "WGS84" /\ to_system = "WCONGNAMUL")
    /\ ~(from_system = "WCONGNAMUL" /\ to_system = "WGS84")
    /\ cexc' = [type |-> "ValueError",
                msg |-> <<"Unsupported conversion: ", from_system, " to ", to_system>>]
    /\ cpc' = "raised"
    /\ UNCHANGED <<heap, cret, projections>>
    /\ CoordFrame

\* the caller stores a value under a key of the dict it got back
CallerMutatesResult ==
    /\ cpc = "returned"
    /\ \E key \in {"x", "longitude"} : \E v \in CoordValues :
          /\ GetOr(heap[cret], key, Number(0)) # v
          /\ heap' = [heap EXCEPT ![cret] = (key :> v) @@ heap[cret]]
    /\ cpc' = "mutated"
    /\ UNCHANGED <<cret, cexc, projections>>
    /\ CoordFrame

CoordNext ==
    \/ ConvertIdentity
    \/ ConvertToWcongnamul
    \/ ConvertToWgs84
    \/ ConvertUnsupported
    \/ CallerMutatesResult

(***************************************************************************)
(* validate_coordinates(coords, coord_system)  (kakaomap/coordinates.py)   *)
(*                                                                         *)
(* Coordinates are numbers with two decimals, kept as integers in units    *)
(* of 0.01 (123.99 is 12399); Python compares int and float exactly, so    *)
(* the chained comparisons are comparisons of these integers.              *)
(***************************************************************************)
\* n units as hundredths
Units(n) == n * 100

\* 124.0 <= longitude <= 132.0 and 33.0 <= latitude <= 39.0
InKoreaWgs84(longitude, latitude) ==
    /\ Units(124) <= longitude /\ longitude <= Units(132)
    /\ Units(33) <= latitude /\ latitude <= Units(39)

\* 100000 <= x <= 600000 and 1000000 <= y <= 1500000
InKoreaWcongnamul(x, y) ==
    /\ Units(100000) <= x /\ x <= Units(600000)
    /\ Units(1000000) <= y /\ y <= Units(1500000)

\* the values a key of the generated dicts can hold: those around each bound
\* of the two ranges
ValidateValuesOf(key) ==
    CASE key = "longitude" -> {12399, 12400, 13200, 13201, 3300}
      [] key = "latitude" -> {3299, 3300, 3900, 3901}
      [] key = "x" -> {12400, 13201, Units(100000) - 1, Units(100000),
                       Units(600000), Units(600000) + 1}
      [] key = "y" -> {3300, 3901, Units(1000000) - 1, Units(1000000),
                       Units(1500000), Units(1500000) + 1}

ValidateKeys == {"longitude", "latitude", "x", "y"}

ValidateValues == UNION {ValidateValuesOf(key) : key \in ValidateKeys}

ValidateDicts ==
    UNION {{d \in [K -> ValidateValues] : \A key \in K : d[key] \in ValidateValuesOf(key)} :
           K \in SUBSET ValidateKeys}

ValidateFrame == UNCHANGED <<vcoords, coord_system, nonValidateVars>>

\* (mutant) the lower bounds are exclusive
ValidateWgs84Exclusive ==
    /\ vpc = "call"
    /\ coord_system = "WGS84"
    /\ LET longitude == GetOr(vcoords, "longitude", GetOr(vcoords, "x", 0))
           latitude == GetOr(vcoords, "latitude", GetOr(vcoords, "y", 0))
       IN vret' = (/\ Units(124) < longitude /\ longitude <= Units(132)
                   /\ Units(33) < latitude /\ latitude <= Units(39))
    /\ vpc' = "returned"
    /\ ValidateFrame

\* if coord_system == 'WGS84'
ValidateWgs84 ==
    /\ vpc = "call"
    /\ coord_system = "WGS84"
    /\ LET longitude == GetOr(vcoords, "longitude", GetOr(vcoords, "x", 0))
           latitude == GetOr(vcoords, "latitude", GetOr(vcoords, "y", 0))
       IN vret' = InKoreaWgs84(longitude, latitude)
    /\ vpc' = "returned"
    /\ ValidateFrame

\* (mutant) x and y fall back to longitude and latitude
ValidateWcongnamulFallback ==
    /\ vpc = "call"
    /\ coord_system = "WCONGNAMUL"
    /\ LET x == GetOr(vcoords, "x", GetOr(vcoords, "longitude", 0))
           y == GetOr(vcoords, "y", GetOr(vcoords, "latitude", 0))
       IN vret' = (/\ Units(100000) <= x /\ x <= Units(600000) + 1
                   /\ Units(1000000) <= y /\ y <= Units(1500000))
    /\ vpc' = "returned"
    /\ ValidateFrame

\* elif coord_system == 'WCONGNAMUL'
ValidateWcongnamul ==
    /\ vpc = "call"
    /\ coord_system = "WCONGNAMUL"
    /\ LET x == GetOr(vcoords, "x", 0)
           y == GetOr(vcoords, "y", 0)
       IN vret' = InKoreaWcongnamul(x, y)
    /\ vpc' = "returned"
    /\ ValidateFrame

\* return False
ValidateOther ==
    /\ vpc = "call"
    /\ coord_system \notin {"WGS84", "WCONGNAMUL"}
    /\ vret' = FALSE
    /\ vpc' = "returned"
    /\ ValidateFrame

ValidateNext ==
    \/ ValidateWgs84
    \/ ValidateWcongnamul
    \/ ValidateOther

(***************************************************************************)
(* CoordinateConverter._geodetic_to_tm and _tm_to_geodetic                 *)
(* (kakaomap/coordinates.py).                                              *)
(*                                                                         *)
(* The floating-point formulas are evaluated in fixed point: angles in     *)
(* micro-radians (degrees in micro-degrees), dimensionless quantities in   *)
(* millionths, lengths in whole metres.  Every product and quotient is     *)
(* rounded towards zero to that resolution; the formulas, their order and  *)
(* their coefficients are those of the code.  Against the double-precision *)
(* results the model is within about 15 m and 0.0002 degrees over the      *)
(* range of the inputs below.                                              *)
(***************************************************************************)
One == 1000000

Abs(n) == IF n < 0 THEN 0 - n ELSE n

Sign(n) == IF n < 0 THEN 0 - 1 ELSE 1

\* the one element of a one-element set; {F(v) : v \in {e}} evaluates e once
Only(S) == CHOOSE r \in S : TRUE

\* a * b for a or b in millionths: (a * b) / One, without leaving 32 bits
MulS(a, b) ==
    Only({LET x1 == Abs(va) \div 1000
              x0 == Abs(va) % 1000
              y1 == Abs(vb) \div 1000
              y0 == Abs(vb) % 1000
          IN Sign(va) * Sign(vb) *
             (x1 * y1 + (x1 * y0 + x0 * y1 + (x0 * y0) \div 1000) \div 1000) :
          va \in {a}, vb \in {b}})

\* long division: the quotient q with remainder r of a division by y,
\* carried n decimals further
RECURSIVE LongDiv(_, _, _, _)
LongDiv(q, r, y, n) ==
    IF n = 0 THEN q
    ELSE Only({LongDiv(vq, vr, y, n - 1) :
               vq \in {q * 10 + (r * 10) \div y}, vr \in {(r * 10) % y}})

\* a / b in millionths: (a * One) / b, by long division
DivS(a, b) ==
    Only({Sign(va) * Sign(vb) * LongDiv(Abs(va) \div Abs(vb), Abs(va) % Abs(vb), Abs(vb), 6) :
          va \in {a}, vb \in {b}})

\* a / n for an integer n > 0, rounded towards zero
DivI(a, n) == Only({Sign(va) * (Abs(va) \div n) : va \in {a}})

\* math.sqrt(w) for w in millionths, 0 < w: Newton's iteration from 1.0
RECURSIVE SqrtFrom(_, _, _)
SqrtFrom(w, s, n) ==
    IF n = 0 THEN s
    ELSE Only({SqrtFrom(w, vs, n - 1) : vs \in {(s + DivS(w, s)) \div 2}})

Sqrt(w) == Only({SqrtFrom(vw, One, 6) : vw \in {w}})

\* the alternating power series term - term*x^2/((k+1)(k+2)) + ..., n terms
RECURSIVE Series(_, _, _, _)
Series(term, x2, k, n) ==
    IF n = 0 THEN 0
    ELSE term + Only({Series(vt, x2, k + 2, n - 1) :
                      vt \in {0 - DivI(MulS(term, x2), (k + 1) * (k + 2))}})

SeriesTerms == 14

\* math.sin, math.cos, math.tan of an angle in micro-radians
Sin(x) == Only({Series(vx, MulS(vx, vx), 1, SeriesTerms) : vx \in {x}})

Cos(x) == Only({Series(One, MulS(vx, vx), 0, SeriesTerms) : vx \in {x}})

Tan(x) == Only({DivS(Sin(vx), Cos(vx)) : vx \in {x}})

\* math.radians of micro-degrees: d * 0.017453292520
Radians(d) == MulS(d, 17453) + DivI(MulS(d, 292520), One)

\* math.degrees of micro-radians: r * 57.295780
Degrees(r) == MulS(r, 57295780)

\* ELLIPSOID_GRS80 and KOREA_TM_CENTRAL: 'a' in metres, 'f' and the scale
\* factor in millionths, the origin in micro-degrees, the offsets in metres
ELLIPSOID_GRS80 == [a |-> 6378137, f |-> DivS(One, 298257222)]

KOREA_TM_CENTRAL ==
    [longitude_of_origin |-> 127 * One,
     latitude_of_origin |-> 38 * One,
     scale_factor |-> 999600,
     false_easting |-> 200000,
     false_northing |-> 500000]

\* e2 = 2 * f - f * f, e4 = e2 * e2, e6 = e4 * e2
Ecc2 == 2 * ELLIPSOID_GRS80.f - MulS(ELLIPSOID_GRS80.f, ELLIPSOID_GRS80.f)

Ecc4 == MulS(Ecc2, Ecc2)

Ecc6 == MulS(Ecc4, Ecc2)

\* the locals A, B, C, D of both functions ("보조 함수들"), in metres
ArcA == MulS(ELLIPSOID_GRS80.a, One - DivI(Ecc2, 4) - DivI(3 * Ecc4, 64) - DivI(5 * Ecc6, 256))

ArcB == MulS(ELLIPSOID_GRS80.a, DivI(3 * Ecc2, 8) + DivI(3 * Ecc4, 32) + DivI(45 * Ecc6, 1024))

ArcC == MulS(ELLIPSOID_GRS80.a, DivI(15 * Ecc4, 256) + DivI(45 * Ecc6, 1024))

ArcD == MulS(ELLIPSOID_GRS80.a, DivI(35 * Ecc6, 3072))

\* A * lat - B * sin(2 lat) + C * sin(4 lat) - D * sin(6 lat): the meridian arc
MeridianArc(lat_rad) ==
    Only({MulS(ArcA, lat) - MulS(ArcB, Sin(2 * lat))
            + MulS(ArcC, Sin(4 * lat)) - MulS(ArcD, Sin(6 * lat)) : lat \in {lat_rad}})

\* nu = a / sqrt(1 - e2 sin^2), rho = a (1 - e2) / (1 - e2 sin^2)^(3/2)
RadiusNu(lat_rad) ==
    Only({DivS(ELLIPSOID_GRS80.a, Sqrt(One - MulS(Ecc2, MulS(sin_lat, sin_lat)))) :
          sin_lat \in {Sin(lat_rad)}})

RadiusRho(lat_rad) ==
    Only({DivS(MulS(ELLIPSOID_GRS80.a, One - Ecc2), MulS(w, Sqrt(w))) :
          w \in {One - MulS(Ecc2, MulS(Sin(lat_rad), Sin(lat_rad)))}})

\* x ** n for x in millionths
RECURSIVE Pow(_, _)
Pow(x, n) == IF n = 0 THEN One ELSE Only({MulS(Pow(vx, n - 1), vx) : vx \in {x}})

\* (mutant) the meridian arc of the origin is left out (M0 = 0)
geodetic_to_tm_no_origin(longitude, latitude) ==
    LET params == KOREA_TM_CENTRAL
        k0 == params.scale_factor
    IN Only({Only({Only({<<x + params.false_easting, y + params.false_northing>> :
        x \in {MulS(MulS(nu, k0),
                    p + DivI(MulS(One - T + C, Pow(p, 3)), 6)
                      + DivI(MulS(5 * One - 18 * T + MulS(T, T) + 72 * C - 58 * eta2,
                                  Pow(p, 5)), 120))},
        y \in {MulS(M + MulS(MulS(nu, Tan(lat_rad)),
                              DivI(Pow(p, 2), 2)
                                + DivI(MulS(5 * One - T + 9 * C + 4 * MulS(C, C),
                                            Pow(p, 4)), 24)
                                + DivI(MulS(61 * One - 58 * T + MulS(T, T) + 600 * C
                                              - 330 * eta2, Pow(p, 6)), 720)),
                    k0)}}) :
        M \in {MeridianArc(lat_rad)},
        M0 \in {MeridianArc(lat0_rad)},
        nu \in {RadiusNu(lat_rad)},
        eta2 \in {DivS(RadiusNu(lat_rad), RadiusRho(lat_rad)) - One},
        p \in {lon_rad - lon0_rad},
        T \in {MulS(Tan(lat_rad), Tan(lat_rad))},
        C \in {DivS(MulS(Ecc2, MulS(Cos(lat_rad), Cos(lat_rad))), One - Ecc2)}}) :
        lat_rad \in {Radians(latitude)},
        lon_rad \in {Radians(longitude)},
        lat0_rad \in {Radians(params.latitude_of_origin)},
        lon0_rad \in {Radians(params.longitude_of_origin)}})

\* CoordinateConverter._geodetic_to_tm(longitude, latitude) -> (x, y).  The
\* locals of the code are the bound names, each evaluated once, in the order
\* of the code from the innermost line outwards.
geodetic_to_tm(longitude, latitude) ==
    LET params == KOREA_TM_CENTRAL
        k0 == params.scale_factor
    IN Only({Only({Only({<<x + params.false_easting, y + params.false_northing>> :
        x \in {MulS(MulS(nu, k0),
                    p + DivI(MulS(One - T + C, Pow(p, 3)), 6)
                      + DivI(MulS(5 * One - 18 * T + MulS(T, T) + 72 * C - 58 * eta2,
                                  Pow(p, 5)), 120))},
        y \in {MulS(M - M0 + MulS(MulS(nu, Tan(lat_rad)),
                              DivI(Pow(p, 2), 2)
                                + DivI(MulS(5 * One - T + 9 * C + 4 * MulS(C, C),
                                            Pow(p, 4)), 24)
                                + DivI(MulS(61 * One - 58 * T + MulS(T, T) + 600 * C
                                              - 330 * eta2, Pow(p, 6)), 720)),
                    k0)}}) :
        M \in {MeridianArc(lat_rad)},
        M0 \in {MeridianArc(lat0_rad)},
        nu \in {RadiusNu(lat_rad)},
        eta2 \in {DivS(RadiusNu(lat_rad), RadiusRho(lat_rad)) - One},
        p \in {lon_rad - lon0_rad},
        T \in {MulS(Tan(lat_rad), Tan(lat_rad))},
        C \in {DivS(MulS(Ecc2, MulS(Cos(lat_rad), Cos(lat_rad))), One - Ecc2)}}) :
        lat_rad \in {Radians(latitude)},
        lon_rad \in {Radians(longitude)},
        lat0_rad \in {Radians(params.latitude_of_origin)},
        lon0_rad \in {Radians(params.longitude_of_origin)}})

\* CoordinateConverter._tm_to_geodetic(x, y) -> (longitude, latitude), written
\* the same way
tm_to_geodetic(x_in, y_in) ==
    LET params == KOREA_TM_CENTRAL
        k0 == params.scale_factor
    IN Only({Only({Only({Only({Only({<<Degrees(lon), Degrees(lat)>> :
        lat \in {lat1 - MulS(DivS(MulS(nu1, Tan(lat1)), rho1),
                             DivI(Pow(D_var, 2), 2)
                               - DivI(MulS(5 * One + 3 * T1 + 10 * C1 - 4 * MulS(C1, C1)
                                             - 9 * eta1_2, Pow(D_var, 4)), 24)
                               + DivI(MulS(61 * One + 90 * T1 + 298 * C1
                                             + 45 * MulS(T1, T1) - 252 * eta1_2
                                             - 3 * MulS(C1, C1), Pow(D_var, 6)), 720))},
        lon \in {lon0_rad
                    + DivS(D_var - DivI(MulS(One + 2 * T1 + C1, Pow(D_var, 3)), 6)
                             + DivI(MulS(5 * One - 2 * C1 + 28 * T1 - 3 * MulS(C1, C1)
                                           + 8 * eta1_2 + 24 * MulS(T1, T1),
                                         Pow(D_var, 5)), 120),
                           Cos(lat1))}}) :
        T1 \in {MulS(Tan(lat1), Tan(lat1))},
        C1 \in {DivS(MulS(Ecc2, MulS(Cos(lat1), Cos(lat1))), One - Ecc2)},
        eta1_2 \in {DivS(nu1, rho1) - One},
        D_var \in {DivS(x, MulS(nu1, k0))}}) :
        nu1 \in {RadiusNu(lat1)},
        rho1 \in {RadiusRho(lat1)}}) :
        lat1 \in {mu + MulS(DivI(3 * Ecc2, 2) - DivI(27 * Ecc4, 32), Sin(2 * mu))
                     + MulS(DivI(21 * Ecc4, 16) - DivI(55 * Ecc6, 32), Sin(4 * mu))
                     + MulS(DivI(151 * Ecc6, 96), Sin(6 * mu))}}) :
        x \in {x_in - params.false_easting},
        lon0_rad \in {Radians(params.longitude_of_origin)},
        mu \in {DivS(MeridianArc(Radians(params.latitude_of_origin))
                       + DivS(y_in - params.false_northing, k0), ArcA)}})

\* the geodetic inputs: whole degrees over Korea's range, bounds included
TmLongitudes == {(124 + i) * One : i \in 0..8}

TmLatitudes == {(33 + i) * One : i \in 0..6}

TmFrame == UNCHANGED <<tm_lon, tm_lat, nonTmVars>>

\* (x, y) = _geodetic_to_tm(lon, lat)
GeodeticToTm ==
    /\ tpc = "call"
    /\ tm_xy' = geodetic_to_tm(tm_lon, tm_lat)
    /\ tpc' = "projected"
    /\ UNCHANGED tm_back
    /\ TmFrame

\* (lon, lat) = _tm_to_geodetic(x, y) on the pair just computed
TmToGeodetic ==
    /\ tpc = "projected"
    /\ tm_back' = tm_to_geodetic(tm_xy[1], tm_xy[2])
    /\ tpc' = "recovered"
    /\ UNCHANGED tm_xy
    /\ TmFrame

TmNext ==
    \/ GeodeticToTm
    \/ TmToGeodetic

(***************************************************************************)
(* CoordinateConverter._wgs84_to_grs80 and wgs84_to_wcongnamul, and the    *)
(* WGS84 to WCONGNAMUL branch of convert_coordinates, followed by          *)
(* validate_coordinates (kakaomap/coordinates.py).  Same fixed point as    *)
(* above: cartesian coordinates in whole metres, the rotations of the      *)
(* seven-parameter transform in nano-radians, its scale in parts per       *)
(* 10^9.  Against the double-precision results the geodetic pair is        *)
(* within 0.0005 degrees (about 50 m) over the range of the inputs.        *)
(***************************************************************************)
\* math.pi in micro-radians
Pi == 3141593

\* TRANSFORM_PARAMS: dx, dy, dz in metres (rounded); wx, wy, wz are 1.16,
\* -2.31 and -1.63 arc seconds in nano-radians; k = -6.43e-6 in parts per 10^9
TRANSFORM_PARAMS ==
    [dx |-> 0 - 116, dy |-> 475, dz |-> 674,
     wx |-> 5624, wy |-> 0 - 11199, wz |-> 0 - 7902, k |-> 0 - 6430]

\* v * c for a length v in metres and a coefficient c in units of 10^-9
Nano(v, c) == DivI(MulS(v, c), 1000)

\* x - x^3/3 + x^5/5 - ...: n terms from the power p = x^(2k+1)
RECURSIVE AtanSeries(_, _, _, _)
AtanSeries(p, x2, k, n) ==
    IF n = 0 THEN 0
    ELSE (IF k % 2 = 0 THEN DivI(p, 2 * k + 1) ELSE 0 - DivI(p, 2 * k + 1))
         + Only({AtanSeries(vp, x2, k + 1, n - 1) : vp \in {MulS(p, x2)}})

\* tan(t / 2) from x = tan(t): x / (1 + sqrt(1 + x^2))
HalfAngle(x) == Only({DivS(vx, One + Sqrt(One + MulS(vx, vx))) : vx \in {x}})

\* math.atan of a number in millionths, in micro-radians: the series at the
\* tangent of a quarter of the angle
Atan(x) ==
    Only({4 * AtanSeries(q, MulS(q, q), 0, 8) : q \in {HalfAngle(HalfAngle(x))}})

\* math.atan2(y, x)
Atan2(y, x) ==
    IF x > 0 THEN Atan(DivS(y, x))
    ELSE IF x < 0 THEN Atan(DivS(y, x)) + (IF y >= 0 THEN Pi ELSE 0 - Pi)
    ELSE IF y > 0 THEN Pi \div 2 ELSE IF y < 0 THEN 0 - (Pi \div 2) ELSE 0

\* CoordinateConverter._wgs84_to_grs80(longitude, latitude), micro-degrees.
\* The locals of the code are the bound names, from the innermost line
\* outwards.
wgs84_to_grs80(longitude, latitude) ==
    LET a == ELLIPSOID_GRS80.a
        f == ELLIPSOID_GRS80.f
        e2 == Ecc2
        params == TRANSFORM_PARAMS
    IN Only({Only({Only({Only({Only({Only({
         <<Degrees(Atan2(Y_new, X_new)),
           Degrees(Atan(DivS(Z_new + MulS(MulS(MulS(e2, a), One - f), Pow(Sin(theta), 3)),
                             p - MulS(MulS(e2, a), Pow(Cos(theta), 3)))))>> :
        theta \in {Atan(DivS(MulS(Z_new, a), MulS(MulS(p, a), One - f)))}}) :
        p \in {Sqrt(MulS(X_new, X_new) + MulS(Y_new, Y_new))}}) :
        X_new \in {params.dx + X + Nano(X, params.k) + Nano(Y, params.wz)
                     - Nano(Z, params.wy)},
        Y_new \in {params.dy - Nano(X, params.wz) + Y + Nano(Y, params.k)
                     + Nano(Z, params.wx)},
        Z_new \in {params.dz + Nano(X, params.wy) - Nano(Y, params.wx)
                     + Z + Nano(Z, params.k)}}) :
        X \in {MulS(MulS(N, Cos(lat_rad)), Cos(lon_rad))},
        Y \in {MulS(MulS(N, Cos(lat_rad)), Sin(lon_rad))},
        Z \in {MulS(MulS(N, One - e2), Sin(lat_rad))}}) :
        N \in {RadiusNu(lat_rad)}}) :
        lon_rad \in {Radians(longitude)},
        lat_rad \in {Radians(latitude)}})

\* CoordinateConverter.wgs84_to_wcongnamul(longitude, latitude) -> (x, y),
\* with its two steps evaluated
Wgs84ToWcongnamul(longitude, latitude) ==
    Only({geodetic_to_tm(grs80_coords[1], grs80_coords[2]) :
          grs80_coords \in {wgs84_to_grs80(longitude, latitude)}})

\* validate_coordinates(coords, 'WGS84') on micro-degrees:
\* 124.0 <= longitude <= 132.0 and 33.0 <= latitude <= 39.0
ValidWgs84(longitude, latitude) ==
    /\ 124 * One <= longitude /\ longitude <= 132 * One
    /\ 33 * One <= latitude /\ latitude <= 39 * One

\* validate_coordinates(coords, 'WCONGNAMUL') on metres:
\* 100000 <= x <= 600000 and 1000000 <= y <= 1500000
ValidWcongnamul(x, y) ==
    /\ 100000 <= x /\ x <= 600000
    /\ 1000000 <= y /\ y <= 1500000

\* the WGS84 inputs: whole degrees in and around the accepted range
WgsLongitudes == {(123 + i) * One : i \in 0..10}

WgsLatitudes == {(32 + i) * One : i \in 0..8}

WgsFrame == UNCHANGED <<wgs_lon, wgs_lat, nonWgsVars>>

\* validate_coordinates(c, 'WGS84')
ValidateInput ==
    /\ wpc = "call"
    /\ wgs_accepted' = ValidWgs84(wgs_lon, wgs_lat)
    /\ wpc' = "validated"
    /\ UNCHANGED <<wgs_xy, result_valid>>
    /\ WgsFrame

\* result = convert_coordinates(c, 'WGS84', 'WCONGNAMUL')
ConvertInput ==
    /\ wpc = "validated"
    /\ wgs_xy' = Wgs84ToWcongnamul(wgs_lon, wgs_lat)
    /\ wpc' = "converted"
    /\ UNCHANGED <<wgs_accepted, result_valid>>
    /\ WgsFrame

\* validate_coordinates(result, 'WCONGNAMUL')
ValidateResult ==
    /\ wpc = "converted"
    /\ result_valid' = ValidWcongnamul(wgs_xy[1], wgs_xy[2])
    /\ wpc' = "checked"
    /\ UNCHANGED <<wgs_accepted, wgs_xy>>
    /\ WgsFrame

WgsNext == ValidateInput \/ ConvertInput \/ ValidateResult

(***************************************************************************)
(* A caller of parse_date_value and convert_coordinates: one call after    *)
(* another, each through the actions above, while the wall clock and       *)
(* Home Assistant's default time zone (dt_util.set_default_time_zone, run  *)
(* when the configuration is loaded or changed) move on between and during *)
(* the calls.  Each finished call is logged with its arguments.            *)
(***************************************************************************)
MaxCalls == 2

\* the items of a dict, as a set of pairs
Items(d) == {<<key, d[key]>> : key \in DOMAIN d}

PureRaws ==
    {Text(<<"1", "/", "1", "5", " ", "1", "4">>),
     Text(<<"2", "0", "2", "5", "-", "0", "1", "-", "1", "5">>),
     Text(<<"2", "0", "2", "5", "0", "1", "1", "5">>),
     Text(<<"x">>)}

PureYears == {2025, 2026}

PureDicts ==
    {("longitude" :> Number(127)) @@ ("latitude" :> Number(38)),
     ("x" :> Number(200000)) @@ ("y" :> Number(200000))}

PureSystems == {"WGS84", "WCONGNAMUL", "BESSEL"}

NoCallRunning == dpc = "idle" /\ cpc = "idle"

\* the caller calls parse_date_value(raw, cy)
PureCallParse ==
    /\ NoCallRunning
    /\ ncalls < MaxCalls
    /\ \E raw \in PureRaws : \E cy \in CurrentYears :
          /\ raw_value' = raw
          /\ current_year' = cy
          /\ call_args' = <<raw, cy>>
    /\ date_value' = <<>> /\ parsed_dt' = None /\ fields' = NoFields
    /\ dpc' = "call" /\ dret' = None /\ dexc' = NoExc
    /\ ncalls' = ncalls + 1
    /\ UNCHANGED <<now_year, default_tz, parse_log, convert_log, nonDatePureVars>>

\* parse_date_value has returned to the caller
PureReturnParse ==
    /\ dpc = "returned"
    /\ parse_log' = parse_log \cup {[args |-> call_args, out |-> dret]}
    /\ dpc' = "idle"
    /\ UNCHANGED <<raw_value, current_year, now_year, default_tz, date_value,
                   parsed_dt, fields, dret, dexc, call_args, convert_log, ncalls,
                   nonDatePureVars>>

\* the caller calls convert_coordinates(c, f, t)
PureCallConvert ==
    /\ NoCallRunning
    /\ ncalls < MaxCalls
    /\ \E c \in PureDicts : \E f \in PureSystems : \E t \in PureSystems :
          /\ heap' = <<c>>
          /\ from_system' = f
          /\ to_system' = t
          /\ call_args' = <<Items(c), f, t>>
    /\ coords' = 1
    /\ cpc' = "call" /\ cret' = 0 /\ cexc' = NoError /\ projections' = 0
    /\ ncalls' = ncalls + 1
    /\ UNCHANGED <<parse_log, convert_log, nonCoordPureVars>>

\* convert_coordinates has returned to the caller, or raised
PureReturnConvert ==
    /\ cpc \in {"returned", "raised"}
    /\ convert_log' = convert_log \cup
          {[args |-> call_args,
            raised |-> cpc = "raised",
            out |-> IF cpc = "raised" THEN {} ELSE Items(heap[cret]),
            exc |-> cexc,
            arg_after |-> Items(heap[coords])]}
    /\ cpc' = "idle"
    /\ UNCHANGED <<heap, coords, from_system, to_system, cret, cexc, projections,
                   call_args, parse_log, ncalls, nonCoordPureVars>>

\* the environment, untouched by the two functions
EnvFrame ==
    UNCHANGED <<raw_value, current_year, date_value, parsed_dt, fields, dpc, dret,
                dexc, pureVars, nonDateVars>>

\* midnight of 31 December passes: datetime.now().year grows
EnvNewYear ==
    /\ now_year + 1 \in PureYears
    /\ now_year' = now_year + 1
    /\ UNCHANGED default_tz
    /\ EnvFrame

\* dt_util.set_default_time_zone(tz)
SetDefaultTimeZone ==
    /\ \E tz \in DefaultTimeZones : tz # default_tz /\ default_tz' = tz
    /\ UNCHANGED now_year
    /\ EnvFrame

PureNext ==
    \/ PureCallParse
    \/ DateCall
    \/ \E k \in Patterns : TryPattern(k)
    \/ DateLocalise
    \/ DateReturnNone
    \/ PureReturnParse
    \/ PureCallConvert
    \/ ConvertIdentity
    \/ ConvertToWcongnamul
    \/ ConvertToWgs84
    \/ ConvertUnsupported
    \/ PureReturnConvert
    \/ EnvNewYear
    \/ SetDefaultTimeZone

(***************************************************************************)
(* KoreaConfigFlow.async_step_kakaomap(user_input)  (config_flow.py).      *)
(* The handler runs without interruption up to its one await, the address  *)
(* lookup; the lookup's outcome is the environment's.                      *)
(***************************************************************************)
\* the texts typed into start_x / end_x and start_y / end_y, as the numbers
\* float() makes of them (hundredths)
FlowXs == {12399, 12400, 13201, Units(515290)}

FlowYs == {3299, 3900, Units(1122478)}

\* user_input: None (the form is opened), or the submitted fields; numeric
\* is FALSE when one of the four texts is no number and float() raises
FlowInputs ==
    [present : {FALSE}, coord_system : {"WCONGNAMUL"}, numeric : {TRUE},
     start_x : {0}, start_y : {0}, end_x : {0}, end_y : {0}]
    \cup [present : {TRUE}, coord_system : {"WGS84", "WCONGNAMUL"}, numeric : BOOLEAN,
          start_x : FlowXs, start_y : FlowYs, end_x : FlowXs, end_y : FlowYs]

\* validate_coordinates({...start...}) and validate_coordinates({...end...})
StartValid(u) ==
    IF u.coord_system = "WGS84" THEN InKoreaWgs84(u.start_x, u.start_y)
    ELSE InKoreaWcongnamul(u.start_x, u.start_y)

EndValid(u) ==
    IF u.coord_system = "WGS84" THEN InKoreaWgs84(u.end_x, u.end_y)
    ELSE InKoreaWcongnamul(u.end_x, u.end_y)

\* errors after the two validations
ValidationErrors(u) ==
    (IF StartValid(u) THEN {} ELSE {"start_x"}) \cup (IF EndValid(u) THEN {} ELSE {"end_x"})

FlowFrame == UNCHANGED <<user_input, nonFlowVars>>

\* if user_input is None: only the form is shown
FlowOpenForm ==
    /\ fpc = "start"
    /\ ~user_input.present
    /\ fpc' = "form"
    /\ UNCHANGED <<errors, conversions, lookups, entry_created>>
    /\ FlowFrame

\* float(user_input[...]) raises ValueError: except ValueError
FlowBadNumber ==
    /\ fpc = "start"
    /\ user_input.present /\ ~user_input.numeric
    /\ errors' = {"base"}
    /\ fpc' = "form"
    /\ UNCHANGED <<conversions, lookups, entry_created>>
    /\ FlowFrame

\* (mutant) only the start coordinate is looked at before converting
FlowWgs84StartOnly ==
    /\ fpc = "start"
    /\ user_input.present /\ user_input.numeric
    /\ user_input.coord_system = "WGS84"
    /\ errors' = ValidationErrors(user_input)
    /\ IF StartValid(user_input)
       THEN conversions' = conversions + 2 /\ fpc' = "lookup"
       ELSE UNCHANGED conversions /\ fpc' = "form"
    /\ UNCHANGED <<lookups, entry_created>>
    /\ FlowFrame

\* coord_system == "WGS84": validate both, then convert both if not errors
FlowWgs84 ==
    /\ fpc = "start"
    /\ user_input.present /\ user_input.numeric
    /\ user_input.coord_system = "WGS84"
    /\ errors' = ValidationErrors(user_input)
    /\ IF ValidationErrors(user_input) = {}
       THEN conversions' = conversions + 2 /\ fpc' = "lookup"
       ELSE UNCHANGED conversions /\ fpc' = "form"
    /\ UNCHANGED <<lookups, entry_created>>
    /\ FlowFrame

\* else: WCONGNAMUL input, validated, never converted
FlowWcongnamul ==
    /\ fpc = "start"
    /\ user_input.present /\ user_input.numeric
    /\ user_input.coord_system # "WGS84"
    /\ errors' = ValidationErrors(user_input)
    /\ fpc' = IF ValidationErrors(user_input) = {} THEN "lookup" ELSE "form"
    /\ UNCHANGED <<conversions, lookups, entry_created>>
    /\ FlowFrame

\* await client.async_coordinate_to_address(...): success, and the unique id
\* is new (async_create_entry) or already configured (the abort is caught by
\* except Exception)
FlowLookupSuccess ==
    /\ fpc = "lookup"
    /\ lookups' = lookups + 1
    /\ \E configured \in BOOLEAN :
          IF configured
          THEN errors' = {"base"} /\ fpc' = "form" /\ UNCHANGED entry_created
          ELSE entry_created' = TRUE /\ fpc' = "entry" /\ UNCHANGED errors
    /\ UNCHANGED conversions
    /\ FlowFrame

\* the lookup answers without success, or raises: errors["base"], the form
FlowLookupFailure ==
    /\ fpc = "lookup"
    /\ lookups' = lookups + 1
    /\ errors' = {"base"}
    /\ fpc' = "form"
    /\ UNCHANGED <<conversions, entry_created>>
    /\ FlowFrame

FlowNext ==
    \/ FlowOpenForm
    \/ FlowBadNumber
    \/ FlowWgs84
    \/ FlowWcongnamul
    \/ FlowLookupSuccess
    \/ FlowLookupFailure

(***************************************************************************)
(* The entities that read dates: KoreaSensor.native_value (sensor.py),     *)
(* SafetyAlertSensor.is_on and .extra_state_attributes (binary_sensor.py).  *)
(* A property read is one synchronous step; it calls get_value_from_path   *)
(* and parse_date_value, here as the functions of their arguments.         *)
(***************************************************************************)
MaxAlerts == 2

\* parse_date_value(raw, cy) with datetime.now().year = ny and Home
\* Assistant's default time zone tz: the first pattern that matches decides
ParseDateValue(raw, cy, ny, tz) ==
    IF raw.t # "str" THEN None
    ELSE LET text == Strip(raw.v)
             year == IF cy = None THEN ny ELSE cy.v
             matching == {k \in Patterns : Match(Pattern(k), text).ok}
         IN IF matching = {} THEN None
            ELSE LET k == CHOOSE i \in matching : \A j \in matching : i <= j
                     f == PatternFields(k, GroupInts(Match(Pattern(k), text)), year)
                     made == PyDatetime(f.year, f.month, f.day, f.hour, f.minute,
                                        f.second, PatternTz(k))
                 IN IF made.ok THEN AsLocal(made.dt, tz) ELSE None

\* bool(v) is False
Falsy(v) ==
    \/ v = None
    \/ v.t \in {"str", "list"} /\ Len(v.v) = 0
    \/ v.t = "dict" /\ DOMAIN v.v = {}
    \/ v.t = "int" /\ v.v = 0

\* d.get(key, default) on a dict value
GetD(d, key, default) == IF key \in DOMAIN d.v THEN d.v[key] ELSE default

\* a Python bool
Bool(b) == [t |-> "bool", v |-> b]

\* datetime.date()
DateOf(dt) == [t |-> "date", year |-> dt.year, month |-> dt.month, day |-> dt.day]

\* a >= b for two aware datetimes: the instants are compared
DtGe(a, b) ==
    LET x == AsTimezone(a, Tz("UTC", "zoneinfo"))
        y == AsTimezone(b, Tz("UTC", "zoneinfo"))
        kx == <<x.year, x.month, x.day, x.hour, x.minute, x.second>>
        ky == <<y.year, y.month, y.day, y.hour, y.minute, y.second>>
    IN \/ kx = ky
       \/ \E i \in 1..6 : kx[i] > ky[i] /\ \A j \in 1..(i - 1) : kx[j] = ky[j]

\* re.search(chars + '+', s).group(): the first run of characters of the
\* class, <<>> when there is none
RECURSIVE FirstRun(_, _)
FirstRun(s, class) ==
    IF Len(s) = 0 THEN <<>>
    ELSE IF Head(s) \in class
         THEN LET n == CHOOSE i \in 1..Len(s) :
                          /\ \A j \in 1..i : s[j] \in class
                          /\ i = Len(s) \/ s[i + 1] \notin class
              IN SubSeq(s, 1, n)
         ELSE FirstRun(Tail(s), class)

\* str.replace(',', '')
RECURSIVE WithoutCommas(_)
WithoutCommas(s) ==
    IF Len(s) = 0 THEN <<>>
    ELSE IF Head(s) = "," THEN WithoutCommas(Tail(s))
         ELSE <<Head(s)>> \o WithoutCommas(Tail(s))

\* a variant that leaves the commas in the text given to int()
NumberInKeepingCommas(raw, class) ==
    LET found == FirstRun(raw.v, class)
        n == PyInt(found)
    IN IF Len(found) = 0 THEN Return(raw)
       ELSE IF n.ok THEN Return(Num(n.n)) ELSE Return(None)
\* the branch of native_value for a number in a string: search, int()
NumberIn(raw, class) ==
    LET found == FirstRun(raw.v, class)
        n == PyInt(WithoutCommas(found))
    IN IF Len(found) = 0 THEN Return(raw)
       ELSE IF n.ok THEN Return(Num(n.n)) ELSE Return(None)

\* KoreaSensor.native_value
NativeValue(cdata, translation, data_key, value_key, dclass, ny, tz) ==
    IF Falsy(cdata) THEN Return(None)
    ELSE IF translation THEN Return(Str(<<"t">>))
    ELSE LET data_source == GetD(cdata, data_key, None)
             got == Resolve(data_source, value_key)
             raw == got.v
             parsed == ParseDateValue(raw, None, ny, tz)
         IN IF Falsy(data_source) THEN Return(None)
            ELSE IF got.kind = "raise" THEN Raise(got.exc)
            ELSE IF raw = None \/ dclass = "none" \/ raw.t # "str" THEN Return(raw)
            ELSE CASE dclass = "date" ->
                        IF parsed # None THEN Return(DateOf(parsed)) ELSE Return(None)
                   [] dclass = "timestamp" ->
                        IF parsed # None THEN Return(parsed) ELSE Return(None)
                   [] dclass \in {"monetary", "distance", "gas", "water"} ->
                        NumberIn(raw, DecimalChars \cup {","})
                   [] dclass = "duration" ->
                        NumberIn(raw, DecimalChars)
                   [] OTHER -> Return(raw)

\* the list the safety alert entity reads:
\* coordinator.data.get("parsed_data", {}).get("data", default)
AlertList(cdata, default) ==
    GetD(GetD(cdata, "parsed_data", Dict(<<>>)), "data", default)

\* datetime.combine(date.today(), time(0, 0, 0), tzinfo=pytz.timezone("Asia/Seoul"))
TodayMidnight(day) == DateTime(day.year, day.month, day.day, 0, 0, 0, TZ_ASIA_SEOUL)

\* SafetyAlertSensor.is_on
IsOn(cdata, day, ny, tz) ==
    IF Falsy(cdata) THEN Return(None)
    ELSE LET latest_alert == AlertList(cdata, List(<<Dict(<<>>)>>))
             step == GetD(latest_alert.v[1], "EMRGNCY_STEP_NM", None)
             registered == ParseDateValue(GetD(latest_alert.v[1], "REGIST_DT", None),
                                          None, ny, tz)
         IN IF Falsy(latest_alert) THEN Return(None)
            ELSE IF Falsy(step) THEN Return(Bool(FALSE))
            ELSE IF registered = None THEN Raise("TypeError")
            ELSE Return(Bool(DtGe(registered, TodayMidnight(day))))

\* list.sort(key=..., reverse=True) on the registration dates: stable, and a
\* comparison with None is a TypeError
RECURSIVE InsertDesc(_, _)
InsertDesc(sorted, d) ==
    IF Len(sorted) = 0 THEN <<d>>
    ELSE IF DtGe(Head(sorted), d) THEN <<Head(sorted)>> \o InsertDesc(Tail(sorted), d)
         ELSE <<d>> \o sorted

RECURSIVE SortDesc(_)
SortDesc(ds) ==
    IF Len(ds) = 0 THEN <<>> ELSE InsertDesc(SortDesc(SubSeq(ds, 1, Len(ds) - 1)), ds[Len(ds)])

\* SafetyAlertSensor.extra_state_attributes (of each alert, the registration
\* date only)
ExtraStateAttributes(cdata, ny, tz) ==
    IF Falsy(cdata) THEN Return(None)
    ELSE LET list == AlertList(cdata, List(<<Dict(<<>>)>>))
             dates == [i \in 1..Len(list.v) |->
                          ParseDateValue(GetD(list.v[i], "REGIST_DT", None), None, ny, tz)]
         IN IF Len(list.v) = 0 THEN Raise("IndexError")
            ELSE IF Falsy(list.v[1]) THEN Return(None)
            ELSE IF Len(dates) >= 2 /\ \E i \in 1..Len(dates) : dates[i] = None
                 THEN Raise("TypeError")
            ELSE Return([t |-> "attributes", latest |-> dates[1], alerts |-> SortDesc(dates)])

\* the strings a date field holds
DateTexts ==
    {<<"2", "0", "2", "5", "-", "0", "1", "-", "1", "5", " ", "1", "4", ":", "3", "0", ":", "0", "0">>,
     <<"2", "0", "2", "5", "-", "0", "1", "-", "1", "5", " ", "1", "4", ":", "3", "0", ":", "0", "0",
       ".", "0">>,
     <<"2", "0", "2", "5", "-", "0", "1", "-", "1", "4">>}

\* the strings of the other fields
OtherTexts ==
    {<<"x">>, <<"1", ",", "5", "5", "0", "w">>, <<"2", "8", "m">>, <<",">>, <<>>,
     <<"1", "5", ".", "5", "m">>, <<"a", ",", " ", "5">>}

\* coordinator.data of a KoreaSensor with data_key "recent_usage" and
\* value_key "a"
KoreaData ==
    {None, Dict(<<>>), Dict("recent_usage" :> Dict(<<>>))}
    \cup {Dict("recent_usage" :> Dict(<<"a">> :> v)) :
            v \in {None, Num(7)} \cup {Str(s) : s \in DateTexts \cup OtherTexts}}

DeviceClasses ==
    {"date", "timestamp", "monetary", "distance", "gas", "water", "duration", "none"}

\* one alert of disasterSmsList: each of the two fields may be missing
Alerts ==
    {Dict((IF step = None THEN <<>> ELSE "EMRGNCY_STEP_NM" :> step)
          @@ (IF dt = None THEN <<>> ELSE "REGIST_DT" :> dt)) :
       step \in {None, Str(<<>>), Str(<<"s">>)},
       dt \in {None} \cup {Str(s) : s \in DateTexts}}

\* coordinator.data of a SafetyAlertSensor
AlertData ==
    {None, Dict("has_data" :> None)}
    \cup {Dict("parsed_data" :> Dict("data" :> List(s))) : s \in SeqsUpTo(Alerts, MaxAlerts)}

Days == {[year |-> 2025, month |-> 1, day |-> 15]}

EntityFrame ==
    UNCHANGED <<entity, coordinator_data, device_class, value_translation, today,
                ha_zone, nonSensorVars>>

SensorFrame ==
    /\ EntityFrame
    /\ UNCHANGED <<device_available, last_update_success, available_seen>>

\* the state machine reads KoreaSensor.native_value
ReadNativeValue ==
    /\ spc = "ready" /\ entity = "KoreaSensor"
    /\ reading' = NativeValue(coordinator_data, value_translation, "recent_usage", <<"a">>,
                              device_class, today.year, ha_zone)
    /\ read_prop' = "native_value"
    /\ spc' = "read"
    /\ SensorFrame

\* ... SafetyAlertSensor.is_on
ReadIsOn ==
    /\ spc = "ready" /\ entity = "SafetyAlertSensor"
    /\ reading' = IsOn(coordinator_data, today, today.year, ha_zone)
    /\ read_prop' = "is_on"
    /\ spc' = "read"
    /\ SensorFrame

\* ... SafetyAlertSensor.extra_state_attributes
ReadExtraStateAttributes ==
    /\ spc = "ready" /\ entity = "SafetyAlertSensor"
    /\ reading' = ExtraStateAttributes(coordinator_data, today.year, ha_zone)
    /\ read_prop' = "extra_state_attributes"
    /\ spc' = "read"
    /\ SensorFrame

\* a variant that looks at the device only
AvailableDeviceOnly(device_flag, coordinator_flag) == device_flag
\* KoreaSensor.available and SafetyAlertSensor.available, the same expression
Available(device_flag, coordinator_flag) == device_flag /\ coordinator_flag

\* ... the entity's available property is read
ReadAvailable ==
    /\ spc \in {"ready", "read"}
    /\ reading' = Return(Bool(Available(device_available, last_update_success)))
    /\ read_prop' = "available"
    /\ available_seen' = available_seen \cup {<<device_available, last_update_success>>}
    /\ spc' = "read"
    /\ UNCHANGED <<device_available, last_update_success>>
    /\ EntityFrame

\* the device's availability changes; what was read before is out of date
DeviceAvailability ==
    /\ spc \in {"ready", "read"}
    /\ device_available' = ~device_available
    /\ read_prop' = "" /\ reading' = Return(None) /\ spc' = "ready"
    /\ UNCHANGED <<last_update_success, available_seen>>
    /\ EntityFrame

\* the coordinator finishes an update, with or without success
CoordinatorUpdate ==
    /\ spc \in {"ready", "read"}
    /\ last_update_success' = ~last_update_success
    /\ read_prop' = "" /\ reading' = Return(None) /\ spc' = "ready"
    /\ UNCHANGED <<device_available, available_seen>>
    /\ EntityFrame

SensorNext ==
    \/ ReadNativeValue
    \/ ReadIsOn
    \/ ReadExtraStateAttributes
    \/ ReadAvailable
    \/ DeviceAvailability
    \/ CoordinatorUpdate


(***************************************************************************)
(* The devices: async_update of KepcoDevice, GasAppDevice,                 *)
(* SafetyAlertDevice, GoodsFlowDevice and KakaoMapDevice.  A call awaits   *)
(* the requests of its API client one after the other, builds self.data    *)
(* from the responses and sets _available; the except clauses clear        *)
(* _available and raise UpdateFailed.                                      *)
(***************************************************************************)
MaxUpdates == 2
MaxRoutes == 2

Services == {"kepco", "gasapp", "safety_alert", "goodsflow", "kakaomap"}

\* the number of requests async_update awaits
Requests(service) ==
    CASE service = "kepco" -> 2
      [] service = "gasapp" -> 3
      [] service = "kakaomap" -> 3
      [] OTHER -> 1

\* the exceptions the API client's request methods raise.  The client of
\* safety_alert catches every Exception itself and returns {} instead.
ApiErrors(service) ==
    CASE service = "kepco" -> {"KepcoAuthError", "KepcoApiError"}
      [] service = "gasapp" -> {"GasAppAuthError", "GasAppConnectionError", "GasAppDataError"}
      [] service = "goodsflow" ->
            {"GoodsFlowAuthError", "GoodsFlowConnectionError", "GoodsFlowDataError"}
      [] service = "kakaomap" -> {"KakaoMapConnectionError", "KakaoMapDataError"}
      [] OTHER -> {}

\* marks a key that the response does not have
Absent == [t |-> "absent"]

\* responses of the safety alert service: any JSON value; {} is also what the
\* client returns when the HTTP request failed
SafetyAlertResponses ==
    {Dict(<<>>), List(<<>>)}
    \cup {Dict((IF sms = Absent THEN <<>> ELSE "disasterSmsList" :> sms)
               @@ (IF rtn = Absent THEN <<>> ELSE "rtnResult" :> rtn)) :
            sms \in {Absent, None, List(<<>>), List(<<Dict(<<>>)>>)},
            rtn \in {Absent, None, Dict("totCnt" :> Num(1))}}

\* a status parse_tracking_data counts as active, and one it counts as delivered
Delivering == Str(<<"in transit">>)
Delivered == Str(<<"delivered">>)

\* responses of the tracking list of goodsflow
GoodsFlowResponses ==
    {Dict(<<>>), Dict("success" :> Bool(FALSE)), Dict("success" :> Bool(TRUE)),
     Dict("success" :> Bool(TRUE) @@ "data" :> None),
     Dict("success" :> Bool(TRUE) @@ "data" :> Dict(<<>>)),
     Dict("success" :> Bool(TRUE) @@ "data" :> Dict("transList" :> None))}
    \cup {Dict("success" :> Bool(TRUE)
               @@ "data" :> Dict("transList" :> Dict("rows" :> List(rows)
                                                     @@ "totalCount" :> Num(Len(rows))))) :
            rows \in {<<>>, <<Dict("status" :> Delivering)>>,
                      <<Dict("status" :> Delivered), Dict(<<>>)>>}}

\* one route of in_local.routes: time and fare may be missing
Routes ==
    {Dict((IF time = None THEN <<>> ELSE "time" :> Dict("value" :> time))
          @@ (IF fare = None THEN <<>> ELSE "fare" :> Dict("value" :> fare))) :
       time \in {None, Num(1770)}, fare \in {None, Num(1500)}}

\* responses of the public transport route of kakaomap
RouteResponses ==
    {Dict(<<>>), Dict("in_local" :> None), Dict("in_local" :> Dict(<<>>))}
    \cup {Dict("in_local" :> Dict("routes" :> List(s))) : s \in SeqsUpTo(Routes, MaxRoutes)}

\* the responses of the request a call awaits as its number-th
Responses(service, number) ==
    CASE service = "kepco" -> {Dict(<<>>), Dict("result" :> Dict(<<>>))}
      [] service = "gasapp" /\ number = 1 -> {Dict(<<>>)}
      [] service = "gasapp" /\ number = 2 -> {None, List(<<>>)}
      [] service = "gasapp" /\ number = 3 -> {None, Dict("title1" :> Str(<<"t">>))}
      [] service = "safety_alert" -> SafetyAlertResponses
      [] service = "goodsflow" -> GoodsFlowResponses
      [] service = "kakaomap" /\ number < 3 -> {Dict("address" :> Str(<<"a">>))}
      [] OTHER -> RouteResponses

\* Python's truth value of a value of the responses
Truthy(v) == IF v.t = "bool" THEN v.v ELSE IF v.t = "int" THEN v.v # 0 ELSE ~Falsy(v)

\* SafetyAlertDevice.async_update between the request and _available = True
\* (last_updated, a time stamp, is left out)
SafetyAlertData(response) ==
    IF ~IsDict(response) THEN Raise("AttributeError")
    ELSE LET parsed_data == GetD(response, "disasterSmsList", List(<<>>))
             rtnResult == GetD(response, "rtnResult", Dict(<<>>))
         IN IF ~IsDict(rtnResult) THEN Raise("AttributeError")
            ELSE IF ~IsList(parsed_data) THEN Raise("TypeError")
            ELSE Return(Dict("has_data" :> Bool(Len(parsed_data.v) > 0)
                             @@ "metadata" :> Dict("count" :> GetD(rtnResult, "totCnt", Num(0)))
                             @@ "parsed_data" :> Dict("data" :> parsed_data)))

\* the number of packages of rows whose status is one of statuses
RECURSIVE CountStatus(_, _)
CountStatus(rows, statuses) ==
    IF Len(rows) = 0 THEN 0
    ELSE (IF GetD(Head(rows), "status", Str(<<"unknown">>)) \in statuses THEN 1 ELSE 0)
         + CountStatus(Tail(rows), statuses)

\* GoodsFlowApiClient.parse_tracking_data
parse_tracking_data(response) ==
    LET summary(total, active, delivered, packages) ==
            Dict("total_packages" :> total @@ "active_packages" :> Num(active)
                 @@ "delivered_packages" :> Num(delivered) @@ "packages" :> packages)
    IN IF Falsy(response) \/ ~Truthy(GetD(response, "success", None))
       THEN Return(summary(Num(0), 0, 0, List(<<>>)))
       ELSE LET inner == GetD(response, "data", Dict(<<>>))
            IN IF ~IsDict(inner) THEN Raise("AttributeError")
               ELSE LET trans_list == GetD(inner, "transList", Dict(<<>>))
                    IN IF ~IsDict(trans_list) THEN Raise("AttributeError")
                       ELSE LET packages == GetD(trans_list, "rows", List(<<>>))
                            IN Return(summary(GetD(trans_list, "totalCount", Num(0)),
                                              CountStatus(packages.v, {Delivering}),
                                              CountStatus(packages.v, {Delivered}),
                                              packages))

\* Python's round(seconds / 60): to the nearest integer, a half to the even one
RoundMinutes(seconds) ==
    LET q == seconds \div 60
        r == seconds % 60
    IN IF r < 30 THEN q ELSE IF r > 30 THEN q + 1 ELSE IF q % 2 = 0 THEN q ELSE q + 1

\* KakaoMapDevice._extract_minutes_from_time of a dict
extract_minutes_from_time(time_data) ==
    LET seconds == GetD(time_data, "value", None)
    IN IF seconds # None /\ Truthy(seconds) THEN Num(RoundMinutes(seconds.v)) ELSE None

\* KakaoMapDevice._extract_fare_value of a dict
extract_fare_value(fare_data) == GetD(fare_data, "value", None)

\* the values of field, in the order of the routes, that are truthy
RECURSIVE TruthyOf(_, _)
TruthyOf(routes, field) ==
    IF Len(routes) = 0 THEN <<>>
    ELSE LET v == Head(routes)[field]
         IN (IF v # None /\ Truthy(v) THEN <<v.v>> ELSE <<>>) \o TruthyOf(Tail(routes), field)

\* KakaoMapDevice._create_route_summary: min() and max() of an empty sequence
\* raise ValueError; the result is reduced to the bounds it formats
create_route_summary(routes) ==
    IF Len(routes) = 0 THEN Return(None)
    ELSE LET times == TruthyOf(routes, "time")
             fares == TruthyOf(routes, "fare")
             Min(s) == CHOOSE x \in {s[i] : i \in 1..Len(s)} : \A i \in 1..Len(s) : x <= s[i]
             Max(s) == CHOOSE x \in {s[i] : i \in 1..Len(s)} : \A i \in 1..Len(s) : x >= s[i]
         IN IF Len(times) = 0 \/ Len(fares) = 0 THEN Raise("ValueError")
            ELSE Return(Dict("min_time" :> Num(Min(times)) @@ "max_time" :> Num(Max(times))
                             @@ "min_fare" :> Num(Min(fares)) @@ "max_fare" :> Num(Max(fares))))

\* KakaoMapDevice._parse_transport_route, reduced to the time and the fare of
\* each route, the number of routes and the route summary
parse_transport_route(raw) ==
    IF Falsy(raw) \/ "in_local" \notin DOMAIN raw.v
    THEN Return(Dict("summary" :> Dict(<<>>) @@ "routes" :> List(<<>>)))
    ELSE IF ~IsDict(raw.v["in_local"]) THEN Raise("AttributeError")
    ELSE LET routes == GetD(raw.v["in_local"], "routes", List(<<>>)).v
             enhanced == [i \in 1..Len(routes) |->
                             [time |-> extract_minutes_from_time(
                                           GetD(routes[i], "time", Dict(<<>>))),
                              fare |-> extract_fare_value(
                                           GetD(routes[i], "fare", Dict(<<>>)))]]
             route_summary == create_route_summary(enhanced)
         IN IF route_summary.kind = "raise" THEN route_summary
            ELSE Return(Dict("summary" :> Dict("total_routes" :> Num(Len(routes))
                                               @@ "route_summary" :> route_summary.v)
                             @@ "routes" :> List(routes)))

\* what async_update makes of the responses before it assigns self.data
BuildData(service, got) ==
    CASE service = "safety_alert" -> SafetyAlertData(got[1])
      [] service = "goodsflow" ->
            LET parsed == parse_tracking_data(got[1])
            IN IF parsed.kind = "raise" THEN parsed
               ELSE Return(Dict("raw_data" :> got[1] @@ "parsed_data" :> parsed.v))
      [] service = "kakaomap" ->
            LET route == parse_transport_route(got[3])
            IN IF route.kind = "raise" THEN route
               ELSE Return(Dict("start_address" :> got[1] @@ "end_address" :> got[2]
                                @@ "transport_route" :> route.v))
      [] service = "kepco" -> Return(Dict("recent_usage" :> got[1] @@ "usage_info" :> got[2]))
      [] OTHER -> Return(Dict("home_data" :> got[1] @@ "bill_history" :> got[2]
                              @@ "current_bill" :> got[3]))

DeviceFrame == UNCHANGED <<service_name, nonDeviceVars>>

\* async_update is called; it awaits its first request
UpdateCall ==
    /\ upc = "idle" /\ nupdates < MaxUpdates
    /\ nupdates' = nupdates + 1
    /\ responses' = <<>> /\ api_raised' = NoExc /\ caught' = NoExc
    /\ update_result' = Return(None)
    /\ upc' = "await"
    /\ UNCHANGED <<available, device_data>>
    /\ DeviceFrame

\* a variant that stores every response in self.data as it arrives
DataWhileAwaitingStored(old, got) == Dict("partial" :> List(got))
\* self.data while async_update awaits its next request: the responses so far
\* are in locals, self.data is not assigned
DataWhileAwaiting(old, got) == old

\* a request that is not the last one returns; the next one is awaited
RequestReturns ==
    /\ upc = "await" /\ Len(responses) + 1 < Requests(service_name)
    /\ \E r \in Responses(service_name, Len(responses) + 1) :
         /\ responses' = Append(responses, r)
         /\ device_data' = DataWhileAwaiting(device_data, Append(responses, r))
    /\ UNCHANGED <<available, api_raised, caught, update_result, nupdates, upc>>
    /\ DeviceFrame

\* the last request returns: self.data is built and assigned and _available
\* set, unless building it raises, which except Exception catches
LastRequestReturns ==
    /\ upc = "await" /\ Len(responses) + 1 = Requests(service_name)
    /\ \E r \in Responses(service_name, Len(responses) + 1) :
         LET got == Append(responses, r)
             built == BuildData(service_name, got)
         IN /\ responses' = got
            /\ IF built.kind = "return"
               THEN /\ device_data' = built.v
                    /\ available' = TRUE
                    /\ caught' = NoExc
                    /\ update_result' = Return(None)
               ELSE /\ available' = FALSE
                    /\ caught' = built.exc
                    /\ update_result' = Raise("UpdateFailed")
                    /\ UNCHANGED device_data
    /\ upc' = "idle"
    /\ UNCHANGED <<api_raised, nupdates>>
    /\ DeviceFrame

\* the awaited request raises one of the client's exceptions
RequestRaises ==
    /\ upc = "await"
    /\ \E e \in ApiErrors(service_name) : api_raised' = e /\ caught' = e
    /\ available' = FALSE
    /\ update_result' = Raise("UpdateFailed")
    /\ upc' = "idle"
    /\ UNCHANGED <<device_data, responses, nupdates>>
    /\ DeviceFrame

\* the task is cancelled while it awaits a request: asyncio.CancelledError is
\* not an Exception, so no except clause of async_update catches it
RequestCancelled ==
    /\ upc = "await"
    /\ api_raised' = "CancelledError"
    /\ update_result' = Raise("CancelledError")
    /\ upc' = "idle"
    /\ UNCHANGED <<available, device_data, responses, caught, nupdates>>
    /\ DeviceFrame

DeviceNext ==
    \/ UpdateCall
    \/ RequestReturns
    \/ LastRequestReturns
    \/ RequestRaises
    \/ RequestCancelled


(***************************************************************************)
(* The life cycle of a config entry: async_setup_entry and                 *)
(* async_unload_entry (__init__.py).  What the awaited calls do (the       *)
(* login, the device's update, the coordinator's first refresh, the        *)
(* forwarding to the platforms, the unloading of the platforms) is the     *)
(* environment's choice; what the function does with each outcome is the   *)
(* code's.                                                                 *)
(***************************************************************************)
MaxSetups == 2

\* the six services, and a name that is none of them
EntryServices ==
    {"kepco", "gasapp", "safety_alert", "goodsflow", "arisu", "kakaomap", "unknown"}

EntryFrame == UNCHANGED nonEntryVars

\* async_setup_entry is called: the branch of the service builds the device
\* with a new session; the else branch logs and returns False
SetupEntry ==
    /\ epc = "idle" /\ nsetups < MaxSetups
    /\ nsetups' = nsetups + 1
    /\ \E s \in EntryServices :
         /\ entry_service' = s
         /\ IF s = "unknown"
            THEN /\ device_session' = "none" /\ setup_result' = "False"
                 /\ failed_step' = "service" /\ epc' = "idle"
            ELSE /\ device_session' = "open" /\ setup_result' = "none"
                 /\ failed_step' = "none"
                 /\ epc' = IF s = "kepco" THEN "login" ELSE "update"
    /\ leaked' = leaked + (IF device_session = "open" THEN 1 ELSE 0)
    /\ session_closes' = 0 /\ coordinator_created' = FALSE /\ record_stored' = FALSE
    /\ login_result' = "none"
    /\ unload_ok' = "none"
    /\ UNCHANGED hass_data
    /\ EntryFrame

\* kepco: await device.api_client.async_login(...).  Its result is not
\* looked at; an exception ends the setup in the except clause, which closes
\* the session and returns False
InitialLogin ==
    /\ epc = "login"
    /\ \E outcome \in {"True", "False", "raised"} :
         /\ login_result' = outcome
         /\ IF outcome = "raised"
            THEN /\ device_session' = "closed"
                 /\ session_closes' = session_closes + 1
                 /\ setup_result' = "False" /\ failed_step' = "login" /\ epc' = "idle"
            ELSE /\ epc' = "update"
                 /\ UNCHANGED <<device_session, session_closes, setup_result, failed_step>>
    /\ UNCHANGED <<entry_service, coordinator_created, record_stored, hass_data, unload_ok, nsetups, leaked>>
    /\ EntryFrame

\* await device.async_update() raises: the session is closed, return False
InitialUpdateFails ==
    /\ epc = "update"
    /\ device_session' = "closed"
    /\ session_closes' = session_closes + 1
    /\ setup_result' = "False" /\ failed_step' = "update" /\ epc' = "idle"
    /\ UNCHANGED <<entry_service, coordinator_created, record_stored, hass_data, login_result, unload_ok,
                   nsetups, leaked>>
    /\ EntryFrame

\* await device.async_update() returns: the coordinator is created and the
\* record stored in hass.data[DOMAIN]; the first refresh is awaited
InitialUpdateReturns ==
    /\ epc = "update"
    /\ coordinator_created' = TRUE
    /\ hass_data' = {"entry"} /\ record_stored' = TRUE
    /\ epc' = "refresh"
    /\ UNCHANGED <<entry_service, device_session, session_closes, setup_result, failed_step,
                   login_result, unload_ok, nsetups, leaked>>
    /\ EntryFrame

\* await coordinator.async_config_entry_first_refresh(), then
\* await hass.config_entries.async_forward_entry_setups(entry, PLATFORMS):
\* an exception of either leaves the function; otherwise return True
FirstRefreshAndForward ==
    /\ epc = "refresh"
    /\ \E outcome \in {"ConfigEntryNotReady", "forward raised", "True"} :
         /\ setup_result' = outcome
         /\ failed_step' = CASE outcome = "ConfigEntryNotReady" -> "refresh"
                             [] outcome = "forward raised" -> "forward"
                             [] OTHER -> "none"
         /\ epc' = IF outcome = "True" THEN "loaded" ELSE "idle"
    /\ UNCHANGED <<entry_service, device_session, session_closes, coordinator_created,
                   record_stored, hass_data, login_result, unload_ok, nsetups, leaked>>
    /\ EntryFrame

\* async_unload_entry: only when the platforms unloaded is the record popped
\* and the session of its device closed; the result is unload_ok
UnloadEntry ==
    /\ epc = "loaded"
    /\ \E ok \in BOOLEAN :
         IF ok
         THEN /\ hass_data' = hass_data \ {"entry"}
              /\ device_session' = "closed"
              /\ session_closes' = session_closes + 1
              /\ unload_ok' = "True"
              /\ epc' = "idle"
         ELSE /\ unload_ok' = "False"
              /\ UNCHANGED <<hass_data, device_session, session_closes, epc>>
    /\ UNCHANGED <<entry_service, coordinator_created, record_stored, setup_result, failed_step,
                   login_result, nsetups, leaked>>
    /\ EntryFrame

EntryNext ==
    \/ SetupEntry
    \/ InitialLogin
    \/ InitialUpdateFails
    \/ InitialUpdateReturns
    \/ FirstRefreshAndForward
    \/ UnloadEntry

(***************************************************************************)
(* KepcoApiClient._request (kepco/api.py): one API request with the        *)
(* re-login on an authentication status.  The server's answers, the        *)
(* transport's failures and the result of async_login are the              *)
(* environment's choice.                                                   *)
(***************************************************************************)
MaxKepcoCalls == 3

\* values of k_first and k_retry that are no status code: no request yet,
\* and a request that raised instead of giving a response
NoResponse == 0

TransportError == 0 - 1

KepcoUrls == {"recent_usage.do", "usage_info.do"}

\* the status codes a response can carry, and the bodies: two JSON texts and
\* a text that json.loads rejects
KepcoStatuses == {200, 401, 403, 500}

KepcoBodies == {"{}", "{\"result\": {}}", "<html>"}

\* json.loads(response.text)
JsonLoads(text) ==
    CASE text = "{}" -> Return(Dict(<<>>))
      [] text = "{\"result\": {}}" -> Return(Dict("result" :> Dict(<<>>)))
      [] OTHER -> Raise("JSONDecodeError")

\* a variant that takes every status for an authentication error
AuthenticationErrorAlways(status) == TRUE
\* if response.status_code in (401, 403)
AuthenticationError(status) == status \in {401, 403}

KepcoFrame == UNCHANGED nonKepcoVars

\* the call ends with the exception e
KepcoRaises(e) == k_exc' = e /\ k_result' = None /\ kpc' = "raised"

\* the call returns the value v
KepcoReturns(v) == k_result' = v /\ k_exc' = NoExc /\ kpc' = "returned"

\* async_get_recent_usage / async_get_usage_info call _request; the client
\* has credentials once async_login or set_credentials was called
KepcoCall ==
    /\ kpc \in {"idle", "returned", "raised"} /\ k_calls < MaxKepcoCalls
    /\ k_calls' = k_calls + 1
    /\ k_url' \in KepcoUrls
    /\ k_credentials' \in BOOLEAN
    /\ k_first' = NoResponse /\ k_retry' = NoResponse /\ k_login' = "none"
    /\ k_requests' = 0 /\ k_logins' = 0
    /\ k_result' = None /\ k_exc' = NoExc
    /\ kpc' = "request"
    /\ KepcoFrame

\* the try block: the request, the check of the status, json.loads; the
\* except clauses of that try
FirstRequest ==
    /\ kpc = "request"
    /\ k_requests' = k_requests + 1
    /\ \/ \* the transport raises: except Exception
          /\ k_first' = TransportError
          /\ KepcoRaises("KepcoApiError")
       \/ \E status \in KepcoStatuses, body \in KepcoBodies :
            /\ k_first' = status
            /\ IF AuthenticationError(status)
               THEN \* raise KepcoAuthError; except KepcoAuthError
                    IF ~k_credentials
                    THEN KepcoRaises("KepcoAuthError")
                    ELSE kpc' = "login" /\ UNCHANGED <<k_result, k_exc>>
               ELSE IF JsonLoads(body).kind = "return"
                    THEN KepcoReturns(JsonLoads(body).v)
                    ELSE \* raise KepcoApiError: except Exception
                         KepcoRaises("KepcoApiError")
    /\ UNCHANGED <<k_url, k_credentials, k_retry, k_login, k_logins, k_calls>>
    /\ KepcoFrame

\* inside the except KepcoAuthError clause: await self.async_login(...).
\* async_login returns True or False; an exception of its first request
\* that is no KepcoAuthError leaves async_login, and no clause of _request
\* catches what is raised inside an except clause
ReLogin ==
    /\ kpc = "login"
    /\ k_logins' = k_logins + 1
    /\ \E outcome \in {"True", "False", "RequestsError"} :
         /\ k_login' = outcome
         /\ CASE outcome = "True" -> kpc' = "retry" /\ UNCHANGED <<k_result, k_exc>>
              [] outcome = "False" -> KepcoRaises("KepcoAuthError")
              [] OTHER -> KepcoRaises(outcome)
    /\ UNCHANGED <<k_url, k_credentials, k_first, k_retry, k_requests, k_calls>>
    /\ KepcoFrame

\* the inner try block: the request again; its except clauses turn every
\* exception, the KepcoAuthError of a 401/403 included, into KepcoApiError
RetryRequest ==
    /\ kpc = "retry"
    /\ k_requests' = k_requests + 1
    /\ \/ /\ k_retry' = TransportError
          /\ KepcoRaises("KepcoApiError")
       \/ \E status \in KepcoStatuses, body \in KepcoBodies :
            /\ k_retry' = status
            /\ IF status \in {401, 403}
               THEN \* raise KepcoAuthError; except Exception as retry_e
                    KepcoRaises("KepcoApiError")
               ELSE IF JsonLoads(body).kind = "return"
                    THEN KepcoReturns(JsonLoads(body).v)
                    ELSE KepcoRaises("KepcoApiError")
    /\ UNCHANGED <<k_url, k_credentials, k_first, k_login, k_logins, k_calls>>
    /\ KepcoFrame

KepcoNext == KepcoCall \/ FirstRequest \/ ReLogin \/ RetryRequest

(***************************************************************************)
(* SafetyAlertApiClient.async_get_safety_alerts (safety_alert/api.py): the *)
(* payload is built from the area codes, the request is posted, and the    *)
(* response or the failure is turned into the result of the call.          *)
(***************************************************************************)
MaxAlertCalls == 2

\* the optional area codes: None, the empty string, a code
AreaCodes == {None, Str(<<>>), Str(<<"4", "1">>)}

\* area_code2 if area_code2 else ""
AreaOrEmpty(code) == IF code = None \/ code = Str(<<>>) THEN Str(<<>>) ELSE code

AlertStatuses == {200, 404, 500, 503}

\* what response.json() gives: a JSON value, or an exception
AlertBodies ==
    {Return(Dict(<<>>)), Return(Dict("disasterSmsList" :> List(<<>>))),
     Return(List(<<>>)), Raise("ContentTypeError"), Raise("JSONDecodeError")}

\* what the post can raise instead of giving a response: two subclasses of
\* aiohttp.ClientError and an exception that is none
AlertTransportErrors == {"ClientConnectorError", "ServerDisconnectedError", "TimeoutError"}

IsClientError(e) ==
    e \in {"ClientConnectorError", "ServerDisconnectedError", "ContentTypeError"}

AlertFrame == UNCHANGED nonAlertApiVars

\* the call: the payload carries the three area codes
AlertCall ==
    /\ apc \in {"idle", "ended"} /\ a_calls < MaxAlertCalls
    /\ a_calls' = a_calls + 1
    /\ \E code2 \in AreaCodes, code3 \in AreaCodes :
         /\ a_codes' = <<Str(<<"1", "1">>), code2, code3>>
         /\ a_payload' = [sbLawArea1 |-> Str(<<"1", "1">>),
                          sbLawArea2 |-> AreaOrEmpty(code2),
                          sbLawArea3 |-> AreaOrEmpty(code3)]
    /\ a_status' = NoResponse /\ a_error' = NoExc /\ a_result' = Return(None)
    /\ apc' = "post"
    /\ AlertFrame

\* the post gives a response.  A status other than 200 raises
\* SafetyAlertConnectionError inside the try block, and so does a failing
\* response.json(); both except clauses return {}
PostResponds ==
    /\ apc = "post"
    /\ \E status \in AlertStatuses, body \in AlertBodies :
         /\ a_status' = status
         /\ IF status # 200
            THEN a_error' = "SafetyAlertConnectionError" /\ a_result' = Return(Dict(<<>>))
            ELSE IF body.kind = "raise"
                 THEN a_error' = body.exc /\ a_result' = Return(Dict(<<>>))
                 ELSE a_error' = NoExc /\ a_result' = body
    /\ apc' = "ended"
    /\ UNCHANGED <<a_codes, a_payload, a_calls>>
    /\ AlertFrame

\* the post raises: except aiohttp.ClientError and except Exception both
\* log and return {}
PostRaises ==
    /\ apc = "post"
    /\ \E e \in AlertTransportErrors :
         /\ a_error' = e
         /\ a_result' = Return(Dict(<<>>))
    /\ a_status' = TransportError
    /\ apc' = "ended"
    /\ UNCHANGED <<a_codes, a_payload, a_calls>>
    /\ AlertFrame

AlertApiNext == AlertCall \/ PostResponds \/ PostRaises

(***************************************************************************)
(* The reception-area sensors of the safety alert service: three           *)
(* KoreaSensor entities with a value_translation (sensor.py), read on the  *)
(* coordinator's data, which is the data SafetyAlertDevice.async_update    *)
(* builds (the update method of the coordinator returns device.data).      *)
(***************************************************************************)
MaxAreaAlerts == 3

\* len(...) < 250 in the value_translation
AreaLimit == 250

\* stands for the Korean word (two characters, "all") that the
\* value_translation gives instead of a long text
Whole == Str(<<"all">>)

\* a text of n characters
TextOf(n) == [i \in 1..n |-> "x"]

\* the reception areas of an alert: a short text, and texts just below and
\* at the limit
AreaTexts == {<<"s">>, TextOf(AreaLimit - 1), TextOf(AreaLimit)}

AreaAlerts == {Dict("RCV_AREA_NM" :> Str(t)) : t \in AreaTexts}

\* the responses of the service: disasterSmsList holds up to MaxAreaAlerts alerts
AreaResponses ==
    {Dict("disasterSmsList" :> List(s)) : s \in SeqsUpTo(AreaAlerts, MaxAreaAlerts)}

\* value_translation of the sensor of alert i:
\* lambda x: x["data"][i]["RCV_AREA_NM"]
\*           if "data" in x and len(x["data"][i]["RCV_AREA_NM"]) < 250 else (all)
AreaTranslation(x, i) ==
    IF "data" \notin DOMAIN x.v THEN Return(Whole)
    ELSE LET alerts == x.v["data"]
         IN IF i + 1 > Len(alerts.v) THEN Raise("IndexError")
            ELSE IF "RCV_AREA_NM" \notin DOMAIN alerts.v[i + 1].v THEN Raise("KeyError")
            ELSE IF Len(alerts.v[i + 1].v["RCV_AREA_NM"].v) < AreaLimit
                 THEN Return(alerts.v[i + 1].v["RCV_AREA_NM"])
                 ELSE Return(Whole)

\* KoreaSensor.native_value of a sensor with a value_translation: the
\* translation gets coordinator.data
AreaNativeValue(cdata, i) ==
    IF Falsy(cdata) THEN Return(None) ELSE AreaTranslation(cdata, i)

AreaFrame == UNCHANGED nonAreaVars

\* the coordinator refreshes: SafetyAlertDevice.async_update gets a response
\* and builds self.data, which becomes coordinator.data
AreaUpdate ==
    /\ arpc \in {"ready", "read"}
    /\ \E response \in AreaResponses :
         /\ area_response' = response
         /\ area_data' = IF SafetyAlertData(response).kind = "return"
                         THEN SafetyAlertData(response).v ELSE area_data
    /\ area_reading' = Return(None)
    /\ arpc' = "ready"
    /\ UNCHANGED alert_index
    /\ AreaFrame

\* the state machine reads native_value of the sensor
AreaRead ==
    /\ arpc = "ready"
    /\ area_reading' = AreaNativeValue(area_data, alert_index)
    /\ arpc' = "read"
    /\ UNCHANGED <<area_response, area_data, alert_index>>
    /\ AreaFrame

AreaNext == AreaUpdate \/ AreaRead

(***************************************************************************)
(* The specifications: one subsystem at a time, on arguments drawn from    *)
(* the input sets; the variables of the other subsystems rest.             *)
(***************************************************************************)
InitPath ==
    /\ data \in DataSet
    /\ path \in PathSet
    /\ keys = <<>> /\ ki = 0 /\ value = None
    /\ pc = "call" /\ result = None /\ exc = NoExc
    /\ raw_value = None /\ current_year = None /\ now_year = 0
    /\ default_tz = Naive /\ date_value = <<>> /\ parsed_dt = None
    /\ fields = NoFields /\ dpc = "idle" /\ dret = None /\ dexc = NoExc
    /\ heap = <<>> /\ coords = 0 /\ from_system = "" /\ to_system = ""
    /\ cpc = "idle" /\ cret = 0 /\ cexc = NoError /\ projections = 0
    /\ vcoords = <<>> /\ coord_system = "" /\ vpc = "idle" /\ vret = FALSE
    /\ tm_lon = 0 /\ tm_lat = 0 /\ tm_xy = <<0, 0>> /\ tm_back = <<0, 0>>
    /\ tpc = "idle"
    /\ call_args = <<>> /\ parse_log = {} /\ convert_log = {} /\ ncalls = 0
    /\ user_input = [present |-> FALSE] /\ errors = {} /\ conversions = 0
    /\ lookups = 0 /\ entry_created = FALSE /\ fpc = "idle"
    /\ entity = "" /\ coordinator_data = None /\ device_class = ""
    /\ value_translation = FALSE
    /\ today = [year |-> 0, month |-> 0, day |-> 0] /\ ha_zone = Naive
    /\ read_prop = "" /\ reading = Return(None) /\ device_available = TRUE
    /\ last_update_success = TRUE /\ available_seen = {} /\ spc = "idle"
    /\ service_name = "" /\ available = TRUE /\ device_data = Dict(<<>>)
    /\ responses = <<>> /\ api_raised = NoExc /\ caught = NoExc
    /\ update_result = Return(None) /\ nupdates = 0 /\ upc = "idle"
    /\ entry_service = "" /\ device_session = "none" /\ session_closes = 0
    /\ coordinator_created = FALSE /\ record_stored = FALSE /\ hass_data = {}
    /\ setup_result = "none" /\ failed_step = "none" /\ login_result = "none"
    /\ unload_ok = "none" /\ nsetups = 0 /\ leaked = 0 /\ epc = "idle"
    /\ k_url = "" /\ k_credentials = FALSE /\ k_first = NoResponse
    /\ k_retry = NoResponse /\ k_login = "none" /\ k_requests = 0
    /\ k_logins = 0 /\ k_result = None /\ k_exc = NoExc /\ k_calls = 0
    /\ kpc = "idle"
    /\ a_codes = <<>> /\ a_payload = <<>> /\ a_status = NoResponse
    /\ a_error = NoExc /\ a_result = Return(None) /\ a_calls = 0
    /\ apc = "idle"
    /\ alert_index = 0 /\ area_response = None /\ area_data = None
    /\ area_reading = Return(None) /\ arpc = "idle"
    /\ wgs_lon = 0 /\ wgs_lat = 0 /\ wgs_accepted = FALSE /\ wgs_xy = <<0, 0>>
    /\ result_valid = FALSE /\ wpc = "idle"

InitDate ==
    /\ raw_value \in RawValues
    /\ current_year \in CurrentYears
    /\ now_year \in NowYears
    /\ default_tz \in DefaultTimeZones
    /\ date_value = <<>> /\ parsed_dt = None /\ fields = NoFields
    /\ dpc = "call" /\ dret = None /\ dexc = NoExc
    /\ data = None /\ path = <<>> /\ keys = <<>> /\ ki = 0 /\ value = None
    /\ pc = "idle" /\ result = None /\ exc = NoExc
    /\ heap = <<>> /\ coords = 0 /\ from_system = "" /\ to_system = ""
    /\ cpc = "idle" /\ cret = 0 /\ cexc = NoError /\ projections = 0
    /\ vcoords = <<>> /\ coord_system = "" /\ vpc = "idle" /\ vret = FALSE
    /\ tm_lon = 0 /\ tm_lat = 0 /\ tm_xy = <<0, 0>> /\ tm_back = <<0, 0>>
    /\ tpc = "idle"
    /\ call_args = <<>> /\ parse_log = {} /\ convert_log = {} /\ ncalls = 0
    /\ user_input = [present |-> FALSE] /\ errors = {} /\ conversions = 0
    /\ lookups = 0 /\ entry_created = FALSE /\ fpc = "idle"
    /\ entity = "" /\ coordinator_data = None /\ device_class = ""
    /\ value_translation = FALSE
    /\ today = [year |-> 0, month |-> 0, day |-> 0] /\ ha_zone = Naive
    /\ read_prop = "" /\ reading = Return(None) /\ device_available = TRUE
    /\ last_update_success = TRUE /\ available_seen = {} /\ spc = "idle"
    /\ service_name = "" /\ available = TRUE /\ device_data = Dict(<<>>)
    /\ responses = <<>> /\ api_raised = NoExc /\ caught = NoExc
    /\ update_result = Return(None) /\ nupdates = 0 /\ upc = "idle"
    /\ entry_service = "" /\ device_session = "none" /\ session_closes = 0
    /\ coordinator_created = FALSE /\ record_stored = FALSE /\ hass_data = {}
    /\ setup_result = "none" /\ failed_step = "none" /\ login_result = "none"
    /\ unload_ok = "none" /\ nsetups = 0 /\ leaked = 0 /\ epc = "idle"
    /\ k_url = "" /\ k_credentials = FALSE /\ k_first = NoResponse
    /\ k_retry = NoResponse /\ k_login = "none" /\ k_requests = 0
    /\ k_logins = 0 /\ k_result = None /\ k_exc = NoExc /\ k_calls = 0
    /\ kpc = "idle"
    /\ a_codes = <<>> /\ a_payload = <<>> /\ a_status = NoResponse
    /\ a_error = NoExc /\ a_result = Return(None) /\ a_calls = 0
    /\ apc = "idle"
    /\ alert_index = 0 /\ area_response = None /\ area_data = None
    /\ area_reading = Return(None) /\ arpc = "idle"
    /\ wgs_lon = 0 /\ wgs_lat = 0 /\ wgs_accepted = FALSE /\ wgs_xy = <<0, 0>>
    /\ result_valid = FALSE /\ wpc = "idle"

InitCoord ==
    /\ \E c \in CoordDicts : heap = <<c>>
    /\ coords = 1
    /\ from_system \in Systems
    /\ to_system \in Systems
    /\ cpc = "call" /\ cret = 0 /\ cexc = NoError /\ projections = 0
    /\ data = None /\ path = <<>> /\ keys = <<>> /\ ki = 0 /\ value = None
    /\ pc = "idle" /\ result = None /\ exc = NoExc
    /\ raw_value = None /\ current_year = None /\ now_year = 0
    /\ default_tz = Naive /\ date_value = <<>> /\ parsed_dt = None
    /\ fields = NoFields /\ dpc = "idle" /\ dret = None /\ dexc = NoExc
    /\ vcoords = <<>> /\ coord_system = "" /\ vpc = "idle" /\ vret = FALSE
    /\ tm_lon = 0 /\ tm_lat = 0 /\ tm_xy = <<0, 0>> /\ tm_back = <<0, 0>>
    /\ tpc = "idle"
    /\ call_args = <<>> /\ parse_log = {} /\ convert_log = {} /\ ncalls = 0
    /\ user_input = [present |-> FALSE] /\ errors = {} /\ conversions = 0
    /\ lookups = 0 /\ entry_created = FALSE /\ fpc = "idle"
    /\ entity = "" /\ coordinator_data = None /\ device_class = ""
    /\ value_translation = FALSE
    /\ today = [year |-> 0, month |-> 0, day |-> 0] /\ ha_zone = Naive
    /\ read_prop = "" /\ reading = Return(None) /\ device_available = TRUE
    /\ last_update_success = TRUE /\ available_seen = {} /\ spc = "idle"
    /\ service_name = "" /\ available = TRUE /\ device_data = Dict(<<>>)
    /\ responses = <<>> /\ api_raised = NoExc /\ caught = NoExc
    /\ update_result = Return(None) /\ nupdates = 0 /\ upc = "idle"
    /\ entry_service = "" /\ device_session = "none" /\ session_closes = 0
    /\ coordinator_created = FALSE /\ record_stored = FALSE /\ hass_data = {}
    /\ setup_result = "none" /\ failed_step = "none" /\ login_result = "none"
    /\ unload_ok = "none" /\ nsetups = 0 /\ leaked = 0 /\ epc = "idle"
    /\ k_url = "" /\ k_credentials = FALSE /\ k_first = NoResponse
    /\ k_retry = NoResponse /\ k_login = "none" /\ k_requests = 0
    /\ k_logins = 0 /\ k_result = None /\ k_exc = NoExc /\ k_calls = 0
    /\ kpc = "idle"
    /\ a_codes = <<>> /\ a_payload = <<>> /\ a_status = NoResponse
    /\ a_error = NoExc /\ a_result = Return(None) /\ a_calls = 0
    /\ apc = "idle"
    /\ alert_index = 0 /\ area_response = None /\ area_data = None
    /\ area_reading = Return(None) /\ arpc = "idle"
    /\ wgs_lon = 0 /\ wgs_lat = 0 /\ wgs_accepted = FALSE /\ wgs_xy = <<0, 0>>
    /\ result_valid = FALSE /\ wpc = "idle"

InitValidate ==
    /\ vcoords \in ValidateDicts
    /\ coord_system \in Systems
    /\ vpc = "call" /\ vret = FALSE
    /\ data = None /\ path = <<>> /\ keys = <<>> /\ ki = 0 /\ value = None
    /\ pc = "idle" /\ result = None /\ exc = NoExc
    /\ raw_value = None /\ current_year = None /\ now_year = 0
    /\ default_tz = Naive /\ date_value = <<>> /\ parsed_dt = None
    /\ fields = NoFields /\ dpc = "idle" /\ dret = None /\ dexc = NoExc
    /\ heap = <<>> /\ coords = 0 /\ from_system = "" /\ to_system = ""
    /\ cpc = "idle" /\ cret = 0 /\ cexc = NoError /\ projections = 0
    /\ tm_lon = 0 /\ tm_lat = 0 /\ tm_xy = <<0, 0>> /\ tm_back = <<0, 0>>
    /\ tpc = "idle"
    /\ call_args = <<>> /\ parse_log = {} /\ convert_log = {} /\ ncalls = 0
    /\ user_input = [present |-> FALSE] /\ errors = {} /\ conversions = 0
    /\ lookups = 0 /\ entry_created = FALSE /\ fpc = "idle"
    /\ entity = "" /\ coordinator_data = None /\ device_class = ""
    /\ value_translation = FALSE
    /\ today = [year |-> 0, month |-> 0, day |-> 0] /\ ha_zone = Naive
    /\ read_prop = "" /\ reading = Return(None) /\ device_available = TRUE
    /\ last_update_success = TRUE /\ available_seen = {} /\ spc = "idle"
    /\ service_name = "" /\ available = TRUE /\ device_data = Dict(<<>>)
    /\ responses = <<>> /\ api_raised = NoExc /\ caught = NoExc
    /\ update_result = Return(None) /\ nupdates = 0 /\ upc = "idle"
    /\ entry_service = "" /\ device_session = "none" /\ session_closes = 0
    /\ coordinator_created = FALSE /\ record_stored = FALSE /\ hass_data = {}
    /\ setup_result = "none" /\ failed_step = "none" /\ login_result = "none"
    /\ unload_ok = "none" /\ nsetups = 0 /\ leaked = 0 /\ epc = "idle"
    /\ k_url = "" /\ k_credentials = FALSE /\ k_first = NoResponse
    /\ k_retry = NoResponse /\ k_login = "none" /\ k_requests = 0
    /\ k_logins = 0 /\ k_result = None /\ k_exc = NoExc /\ k_calls = 0
    /\ kpc = "idle"
    /\ a_codes = <<>> /\ a_payload = <<>> /\ a_status = NoResponse
    /\ a_error = NoExc /\ a_result = Return(None) /\ a_calls = 0
    /\ apc = "idle"
    /\ alert_index = 0 /\ area_response = None /\ area_data = None
    /\ area_reading = Return(None) /\ arpc = "idle"
    /\ wgs_lon = 0 /\ wgs_lat = 0 /\ wgs_accepted = FALSE /\ wgs_xy = <<0, 0>>
    /\ result_valid = FALSE /\ wpc = "idle"

InitTm ==
    /\ tm_lon \in TmLongitudes
    /\ tm_lat \in TmLatitudes
    /\ tm_xy = <<0, 0>> /\ tm_back = <<0, 0>> /\ tpc = "call"
    /\ data = None /\ path = <<>> /\ keys = <<>> /\ ki = 0 /\ value = None
    /\ pc = "idle" /\ result = None /\ exc = NoExc
    /\ raw_value = None /\ current_year = None /\ now_year = 0
    /\ default_tz = Naive /\ date_value = <<>> /\ parsed_dt = None
    /\ fields = NoFields /\ dpc = "idle" /\ dret = None /\ dexc = NoExc
    /\ heap = <<>> /\ coords = 0 /\ from_system = "" /\ to_system = ""
    /\ cpc = "idle" /\ cret = 0 /\ cexc = NoError /\ projections = 0
    /\ vcoords = <<>> /\ coord_system = "" /\ vpc = "idle" /\ vret = FALSE
    /\ call_args = <<>> /\ parse_log = {} /\ convert_log = {} /\ ncalls = 0
    /\ user_input = [present |-> FALSE] /\ errors = {} /\ conversions = 0
    /\ lookups = 0 /\ entry_created = FALSE /\ fpc = "idle"
    /\ entity = "" /\ coordinator_data = None /\ device_class = ""
    /\ value_translation = FALSE
    /\ today = [year |-> 0, month |-> 0, day |-> 0] /\ ha_zone = Naive
    /\ read_prop = "" /\ reading = Return(None) /\ device_available = TRUE
    /\ last_update_success = TRUE /\ available_seen = {} /\ spc = "idle"
    /\ service_name = "" /\ available = TRUE /\ device_data = Dict(<<>>)
    /\ responses = <<>> /\ api_raised = NoExc /\ caught = NoExc
    /\ update_result = Return(None) /\ nupdates = 0 /\ upc = "idle"
    /\ entry_service = "" /\ device_session = "none" /\ session_closes = 0
    /\ coordinator_created = FALSE /\ record_stored = FALSE /\ hass_data = {}
    /\ setup_result = "none" /\ failed_step = "none" /\ login_result = "none"
    /\ unload_ok = "none" /\ nsetups = 0 /\ leaked = 0 /\ epc = "idle"
    /\ k_url = "" /\ k_credentials = FALSE /\ k_first = NoResponse
    /\ k_retry = NoResponse /\ k_login = "none" /\ k_requests = 0
    /\ k_logins = 0 /\ k_result = None /\ k_exc = NoExc /\ k_calls = 0
    /\ kpc = "idle"
    /\ a_codes = <<>> /\ a_payload = <<>> /\ a_status = NoResponse
    /\ a_error = NoExc /\ a_result = Return(None) /\ a_calls = 0
    /\ apc = "idle"
    /\ alert_index = 0 /\ area_response = None /\ area_data = None
    /\ area_reading = Return(None) /\ arpc = "idle"
    /\ wgs_lon = 0 /\ wgs_lat = 0 /\ wgs_accepted = FALSE /\ wgs_xy = <<0, 0>>
    /\ result_valid = FALSE /\ wpc = "idle"

InitPure ==
    /\ call_args = <<>> /\ parse_log = {} /\ convert_log = {} /\ ncalls = 0
    /\ data = None /\ path = <<>> /\ keys = <<>> /\ ki = 0 /\ value = None
    /\ pc = "idle" /\ result = None /\ exc = NoExc
    /\ raw_value = None /\ current_year = None /\ now_year = 2025
    /\ default_tz \in DefaultTimeZones /\ date_value = <<>>
    /\ parsed_dt = None /\ fields = NoFields /\ dpc = "idle" /\ dret = None
    /\ dexc = NoExc
    /\ heap = <<>> /\ coords = 0 /\ from_system = "" /\ to_system = ""
    /\ cpc = "idle" /\ cret = 0 /\ cexc = NoError /\ projections = 0
    /\ vcoords = <<>> /\ coord_system = "" /\ vpc = "idle" /\ vret = FALSE
    /\ tm_lon = 0 /\ tm_lat = 0 /\ tm_xy = <<0, 0>> /\ tm_back = <<0, 0>>
    /\ tpc = "idle"
    /\ user_input = [present |-> FALSE] /\ errors = {} /\ conversions = 0
    /\ lookups = 0 /\ entry_created = FALSE /\ fpc = "idle"
    /\ entity = "" /\ coordinator_data = None /\ device_class = ""
    /\ value_translation = FALSE
    /\ today = [year |-> 0, month |-> 0, day |-> 0] /\ ha_zone = Naive
    /\ read_prop = "" /\ reading = Return(None) /\ device_available = TRUE
    /\ last_update_success = TRUE /\ available_seen = {} /\ spc = "idle"
    /\ service_name = "" /\ available = TRUE /\ device_data = Dict(<<>>)
    /\ responses = <<>> /\ api_raised = NoExc /\ caught = NoExc
    /\ update_result = Return(None) /\ nupdates = 0 /\ upc = "idle"
    /\ entry_service = "" /\ device_session = "none" /\ session_closes = 0
    /\ coordinator_created = FALSE /\ record_stored = FALSE /\ hass_data = {}
    /\ setup_result = "none" /\ failed_step = "none" /\ login_result = "none"
    /\ unload_ok = "none" /\ nsetups = 0 /\ leaked = 0 /\ epc = "idle"
    /\ k_url = "" /\ k_credentials = FALSE /\ k_first = NoResponse
    /\ k_retry = NoResponse /\ k_login = "none" /\ k_requests = 0
    /\ k_logins = 0 /\ k_result = None /\ k_exc = NoExc /\ k_calls = 0
    /\ kpc = "idle"
    /\ a_codes = <<>> /\ a_payload = <<>> /\ a_status = NoResponse
    /\ a_error = NoExc /\ a_result = Return(None) /\ a_calls = 0
    /\ apc = "idle"
    /\ alert_index = 0 /\ area_response = None /\ area_data = None
    /\ area_reading = Return(None) /\ arpc = "idle"
    /\ wgs_lon = 0 /\ wgs_lat = 0 /\ wgs_accepted = FALSE /\ wgs_xy = <<0, 0>>
    /\ result_valid = FALSE /\ wpc = "idle"

InitFlow ==
    /\ user_input \in FlowInputs
    /\ errors = {} /\ conversions = 0 /\ lookups = 0 /\ entry_created = FALSE
    /\ fpc = "start"
    /\ data = None /\ path = <<>> /\ keys = <<>> /\ ki = 0 /\ value = None
    /\ pc = "idle" /\ result = None /\ exc = NoExc
    /\ raw_value = None /\ current_year = None /\ now_year = 0
    /\ default_tz = Naive /\ date_value = <<>> /\ parsed_dt = None
    /\ fields = NoFields /\ dpc = "idle" /\ dret = None /\ dexc = NoExc
    /\ heap = <<>> /\ coords = 0 /\ from_system = "" /\ to_system = ""
    /\ cpc = "idle" /\ cret = 0 /\ cexc = NoError /\ projections = 0
    /\ vcoords = <<>> /\ coord_system = "" /\ vpc = "idle" /\ vret = FALSE
    /\ tm_lon = 0 /\ tm_lat = 0 /\ tm_xy = <<0, 0>> /\ tm_back = <<0, 0>>
    /\ tpc = "idle"
    /\ call_args = <<>> /\ parse_log = {} /\ convert_log = {} /\ ncalls = 0
    /\ entity = "" /\ coordinator_data = None /\ device_class = ""
    /\ value_translation = FALSE
    /\ today = [year |-> 0, month |-> 0, day |-> 0] /\ ha_zone = Naive
    /\ read_prop = "" /\ reading = Return(None) /\ device_available = TRUE
    /\ last_update_success = TRUE /\ available_seen = {} /\ spc = "idle"
    /\ service_name = "" /\ available = TRUE /\ device_data = Dict(<<>>)
    /\ responses = <<>> /\ api_raised = NoExc /\ caught = NoExc
    /\ update_result = Return(None) /\ nupdates = 0 /\ upc = "idle"
    /\ entry_service = "" /\ device_session = "none" /\ session_closes = 0
    /\ coordinator_created = FALSE /\ record_stored = FALSE /\ hass_data = {}
    /\ setup_result = "none" /\ failed_step = "none" /\ login_result = "none"
    /\ unload_ok = "none" /\ nsetups = 0 /\ leaked = 0 /\ epc = "idle"
    /\ k_url = "" /\ k_credentials = FALSE /\ k_first = NoResponse
    /\ k_retry = NoResponse /\ k_login = "none" /\ k_requests = 0
    /\ k_logins = 0 /\ k_result = None /\ k_exc = NoExc /\ k_calls = 0
    /\ kpc = "idle"
    /\ a_codes = <<>> /\ a_payload = <<>> /\ a_status = NoResponse
    /\ a_error = NoExc /\ a_result = Return(None) /\ a_calls = 0
    /\ apc = "idle"
    /\ alert_index = 0 /\ area_response = None /\ area_data = None
    /\ area_reading = Return(None) /\ arpc = "idle"
    /\ wgs_lon = 0 /\ wgs_lat = 0 /\ wgs_accepted = FALSE /\ wgs_xy = <<0, 0>>
    /\ result_valid = FALSE /\ wpc = "idle"

InitSensor ==
    /\ \/ /\ entity = "KoreaSensor"
          /\ coordinator_data \in KoreaData
          /\ device_class \in DeviceClasses
          /\ value_translation \in BOOLEAN
       \/ /\ entity = "SafetyAlertSensor"
          /\ coordinator_data \in AlertData
          /\ device_class = "safety"
          /\ value_translation = FALSE
    /\ today \in Days
    /\ ha_zone \in DefaultTimeZones
    /\ device_available = TRUE /\ last_update_success = TRUE /\ available_seen = {}
    /\ read_prop = "" /\ reading = Return(None) /\ spc = "ready"
    /\ data = None /\ path = <<>> /\ keys = <<>> /\ ki = 0 /\ value = None
    /\ pc = "idle" /\ result = None /\ exc = NoExc
    /\ raw_value = None /\ current_year = None /\ now_year = 0
    /\ default_tz = Naive /\ date_value = <<>> /\ parsed_dt = None
    /\ fields = NoFields /\ dpc = "idle" /\ dret = None /\ dexc = NoExc
    /\ heap = <<>> /\ coords = 0 /\ from_system = "" /\ to_system = ""
    /\ cpc = "idle" /\ cret = 0 /\ cexc = NoError /\ projections = 0
    /\ vcoords = <<>> /\ coord_system = "" /\ vpc = "idle" /\ vret = FALSE
    /\ tm_lon = 0 /\ tm_lat = 0 /\ tm_xy = <<0, 0>> /\ tm_back = <<0, 0>>
    /\ tpc = "idle"
    /\ call_args = <<>> /\ parse_log = {} /\ convert_log = {} /\ ncalls = 0
    /\ user_input = [present |-> FALSE] /\ errors = {} /\ conversions = 0
    /\ lookups = 0 /\ entry_created = FALSE /\ fpc = "idle"
    /\ service_name = "" /\ available = TRUE /\ device_data = Dict(<<>>)
    /\ responses = <<>> /\ api_raised = NoExc /\ caught = NoExc
    /\ update_result = Return(None) /\ nupdates = 0 /\ upc = "idle"
    /\ entry_service = "" /\ device_session = "none" /\ session_closes = 0
    /\ coordinator_created = FALSE /\ record_stored = FALSE /\ hass_data = {}
    /\ setup_result = "none" /\ failed_step = "none" /\ login_result = "none"
    /\ unload_ok = "none" /\ nsetups = 0 /\ leaked = 0 /\ epc = "idle"
    /\ k_url = "" /\ k_credentials = FALSE /\ k_first = NoResponse
    /\ k_retry = NoResponse /\ k_login = "none" /\ k_requests = 0
    /\ k_logins = 0 /\ k_result = None /\ k_exc = NoExc /\ k_calls = 0
    /\ kpc = "idle"
    /\ a_codes = <<>> /\ a_payload = <<>> /\ a_status = NoResponse
    /\ a_error = NoExc /\ a_result = Return(None) /\ a_calls = 0
    /\ apc = "idle"
    /\ alert_index = 0 /\ area_response = None /\ area_data = None
    /\ area_reading = Return(None) /\ arpc = "idle"
    /\ wgs_lon = 0 /\ wgs_lat = 0 /\ wgs_accepted = FALSE /\ wgs_xy = <<0, 0>>
    /\ result_valid = FALSE /\ wpc = "idle"

InitDevice ==
    /\ service_name \in Services
    /\ available = TRUE /\ device_data = Dict(<<>>)
    /\ responses = <<>> /\ api_raised = NoExc /\ caught = NoExc
    /\ update_result = Return(None) /\ nupdates = 0 /\ upc = "idle"
    /\ data = None /\ path = <<>> /\ keys = <<>> /\ ki = 0 /\ value = None
    /\ pc = "idle" /\ result = None /\ exc = NoExc
    /\ raw_value = None /\ current_year = None /\ now_year = 0
    /\ default_tz = Naive /\ date_value = <<>> /\ parsed_dt = None
    /\ fields = NoFields /\ dpc = "idle" /\ dret = None /\ dexc = NoExc
    /\ heap = <<>> /\ coords = 0 /\ from_system = "" /\ to_system = ""
    /\ cpc = "idle" /\ cret = 0 /\ cexc = NoError /\ projections = 0
    /\ vcoords = <<>> /\ coord_system = "" /\ vpc = "idle" /\ vret = FALSE
    /\ tm_lon = 0 /\ tm_lat = 0 /\ tm_xy = <<0, 0>> /\ tm_back = <<0, 0>>
    /\ tpc = "idle"
    /\ call_args = <<>> /\ parse_log = {} /\ convert_log = {} /\ ncalls = 0
    /\ user_input = [present |-> FALSE] /\ errors = {} /\ conversions = 0
    /\ lookups = 0 /\ entry_created = FALSE /\ fpc = "idle"
    /\ entity = "" /\ coordinator_data = None /\ device_class = ""
    /\ value_translation = FALSE
    /\ today = [year |-> 0, month |-> 0, day |-> 0] /\ ha_zone = Naive
    /\ read_prop = "" /\ reading = Return(None) /\ device_available = TRUE
    /\ last_update_success = TRUE /\ available_seen = {} /\ spc = "idle"
    /\ entry_service = "" /\ device_session = "none" /\ session_closes = 0
    /\ coordinator_created = FALSE /\ record_stored = FALSE /\ hass_data = {}
    /\ setup_result = "none" /\ failed_step = "none" /\ login_result = "none"
    /\ unload_ok = "none" /\ nsetups = 0 /\ leaked = 0 /\ epc = "idle"
    /\ k_url = "" /\ k_credentials = FALSE /\ k_first = NoResponse
    /\ k_retry = NoResponse /\ k_login = "none" /\ k_requests = 0
    /\ k_logins = 0 /\ k_result = None /\ k_exc = NoExc /\ k_calls = 0
    /\ kpc = "idle"
    /\ a_codes = <<>> /\ a_payload = <<>> /\ a_status = NoResponse
    /\ a_error = NoExc /\ a_result = Return(None) /\ a_calls = 0
    /\ apc = "idle"
    /\ alert_index = 0 /\ area_response = None /\ area_data = None
    /\ area_reading = Return(None) /\ arpc = "idle"
    /\ wgs_lon = 0 /\ wgs_lat = 0 /\ wgs_accepted = FALSE /\ wgs_xy = <<0, 0>>
    /\ result_valid = FALSE /\ wpc = "idle"

InitEntry ==
    /\ entry_service = "" /\ device_session = "none" /\ session_closes = 0
    /\ coordinator_created = FALSE /\ record_stored = FALSE /\ hass_data = {} /\ setup_result = "none"
    /\ failed_step = "none" /\ login_result = "none" /\ unload_ok = "none"
    /\ nsetups = 0 /\ leaked = 0 /\ epc = "idle"
    /\ data = None /\ path = <<>> /\ keys = <<>> /\ ki = 0 /\ value = None
    /\ pc = "idle" /\ result = None /\ exc = NoExc
    /\ raw_value = None /\ current_year = None /\ now_year = 0
    /\ default_tz = Naive /\ date_value = <<>> /\ parsed_dt = None
    /\ fields = NoFields /\ dpc = "idle" /\ dret = None /\ dexc = NoExc
    /\ heap = <<>> /\ coords = 0 /\ from_system = "" /\ to_system = ""
    /\ cpc = "idle" /\ cret = 0 /\ cexc = NoError /\ projections = 0
    /\ vcoords = <<>> /\ coord_system = "" /\ vpc = "idle" /\ vret = FALSE
    /\ tm_lon = 0 /\ tm_lat = 0 /\ tm_xy = <<0, 0>> /\ tm_back = <<0, 0>>
    /\ tpc = "idle"
    /\ call_args = <<>> /\ parse_log = {} /\ convert_log = {} /\ ncalls = 0
    /\ user_input = [present |-> FALSE] /\ errors = {} /\ conversions = 0
    /\ lookups = 0 /\ entry_created = FALSE /\ fpc = "idle"
    /\ entity = "" /\ coordinator_data = None /\ device_class = ""
    /\ value_translation = FALSE
    /\ today = [year |-> 0, month |-> 0, day |-> 0] /\ ha_zone = Naive
    /\ read_prop = "" /\ reading = Return(None) /\ device_available = TRUE
    /\ last_update_success = TRUE /\ available_seen = {} /\ spc = "idle"
    /\ service_name = "" /\ available = TRUE /\ device_data = Dict(<<>>)
    /\ responses = <<>> /\ api_raised = NoExc /\ caught = NoExc
    /\ update_result = Return(None) /\ nupdates = 0 /\ upc = "idle"
    /\ k_url = "" /\ k_credentials = FALSE /\ k_first = NoResponse
    /\ k_retry = NoResponse /\ k_login = "none" /\ k_requests = 0
    /\ k_logins = 0 /\ k_result = None /\ k_exc = NoExc /\ k_calls = 0
    /\ kpc = "idle"
    /\ a_codes = <<>> /\ a_payload = <<>> /\ a_status = NoResponse
    /\ a_error = NoExc /\ a_result = Return(None) /\ a_calls = 0
    /\ apc = "idle"
    /\ alert_index = 0 /\ area_response = None /\ area_data = None
    /\ area_reading = Return(None) /\ arpc = "idle"
    /\ wgs_lon = 0 /\ wgs_lat = 0 /\ wgs_accepted = FALSE /\ wgs_xy = <<0, 0>>
    /\ result_valid = FALSE /\ wpc = "idle"

InitKepco ==
    /\ k_url = "" /\ k_credentials = FALSE
    /\ k_first = NoResponse /\ k_retry = NoResponse /\ k_login = "none"
    /\ k_requests = 0 /\ k_logins = 0 /\ k_result = None /\ k_exc = NoExc
    /\ k_calls = 0 /\ kpc = "idle"
    /\ data = None /\ path = <<>> /\ keys = <<>> /\ ki = 0 /\ value = None
    /\ pc = "idle" /\ result = None /\ exc = NoExc
    /\ raw_value = None /\ current_year = None /\ now_year = 0
    /\ default_tz = Naive /\ date_value = <<>> /\ parsed_dt = None
    /\ fields = NoFields /\ dpc = "idle" /\ dret = None /\ dexc = NoExc
    /\ heap = <<>> /\ coords = 0 /\ from_system = "" /\ to_system = ""
    /\ cpc = "idle" /\ cret = 0 /\ cexc = NoError /\ projections = 0
    /\ vcoords = <<>> /\ coord_system = "" /\ vpc = "idle" /\ vret = FALSE
    /\ tm_lon = 0 /\ tm_lat = 0 /\ tm_xy = <<0, 0>> /\ tm_back = <<0, 0>>
    /\ tpc = "idle"
    /\ call_args = <<>> /\ parse_log = {} /\ convert_log = {} /\ ncalls = 0
    /\ user_input = [present |-> FALSE] /\ errors = {} /\ conversions = 0
    /\ lookups = 0 /\ entry_created = FALSE /\ fpc = "idle"
    /\ entity = "" /\ coordinator_data = None /\ device_class = ""
    /\ value_translation = FALSE
    /\ today = [year |-> 0, month |-> 0, day |-> 0] /\ ha_zone = Naive
    /\ read_prop = "" /\ reading = Return(None) /\ device_available = TRUE
    /\ last_update_success = TRUE /\ available_seen = {} /\ spc = "idle"
    /\ service_name = "" /\ available = TRUE /\ device_data = Dict(<<>>)
    /\ responses = <<>> /\ api_raised = NoExc /\ caught = NoExc
    /\ update_result = Return(None) /\ nupdates = 0 /\ upc = "idle"
    /\ entry_service = "" /\ device_session = "none" /\ session_closes = 0
    /\ coordinator_created = FALSE /\ record_stored = FALSE /\ hass_data = {}
    /\ setup_result = "none" /\ failed_step = "none" /\ login_result = "none"
    /\ unload_ok = "none" /\ nsetups = 0 /\ leaked = 0 /\ epc = "idle"
    /\ a_codes = <<>> /\ a_payload = <<>> /\ a_status = NoResponse
    /\ a_error = NoExc /\ a_result = Return(None) /\ a_calls = 0
    /\ apc = "idle"
    /\ alert_index = 0 /\ area_response = None /\ area_data = None
    /\ area_reading = Return(None) /\ arpc = "idle"
    /\ wgs_lon = 0 /\ wgs_lat = 0 /\ wgs_accepted = FALSE /\ wgs_xy = <<0, 0>>
    /\ result_valid = FALSE /\ wpc = "idle"

InitAlertApi ==
    /\ a_codes = <<>> /\ a_payload = <<>> /\ a_status = NoResponse /\ a_error = NoExc
    /\ a_result = Return(None) /\ a_calls = 0 /\ apc = "idle"
    /\ data = None /\ path = <<>> /\ keys = <<>> /\ ki = 0 /\ value = None
    /\ pc = "idle" /\ result = None /\ exc = NoExc
    /\ raw_value = None /\ current_year = None /\ now_year = 0
    /\ default_tz = Naive /\ date_value = <<>> /\ parsed_dt = None
    /\ fields = NoFields /\ dpc = "idle" /\ dret = None /\ dexc = NoExc
    /\ heap = <<>> /\ coords = 0 /\ from_system = "" /\ to_system = ""
    /\ cpc = "idle" /\ cret = 0 /\ cexc = NoError /\ projections = 0
    /\ vcoords = <<>> /\ coord_system = "" /\ vpc = "idle" /\ vret = FALSE
    /\ tm_lon = 0 /\ tm_lat = 0 /\ tm_xy = <<0, 0>> /\ tm_back = <<0, 0>>
    /\ tpc = "idle"
    /\ call_args = <<>> /\ parse_log = {} /\ convert_log = {} /\ ncalls = 0
    /\ user_input = [present |-> FALSE] /\ errors = {} /\ conversions = 0
    /\ lookups = 0 /\ entry_created = FALSE /\ fpc = "idle"
    /\ entity = "" /\ coordinator_data = None /\ device_class = ""
    /\ value_translation = FALSE
    /\ today = [year |-> 0, month |-> 0, day |-> 0] /\ ha_zone = Naive
    /\ read_prop = "" /\ reading = Return(None) /\ device_available = TRUE
    /\ last_update_success = TRUE /\ available_seen = {} /\ spc = "idle"
    /\ service_name = "" /\ available = TRUE /\ device_data = Dict(<<>>)
    /\ responses = <<>> /\ api_raised = NoExc /\ caught = NoExc
    /\ update_result = Return(None) /\ nupdates = 0 /\ upc = "idle"
    /\ entry_service = "" /\ device_session = "none" /\ session_closes = 0
    /\ coordinator_created = FALSE /\ record_stored = FALSE /\ hass_data = {}
    /\ setup_result = "none" /\ failed_step = "none" /\ login_result = "none"
    /\ unload_ok = "none" /\ nsetups = 0 /\ leaked = 0 /\ epc = "idle"
    /\ k_url = "" /\ k_credentials = FALSE /\ k_first = NoResponse
    /\ k_retry = NoResponse /\ k_login = "none" /\ k_requests = 0
    /\ k_logins = 0 /\ k_result = None /\ k_exc = NoExc /\ k_calls = 0
    /\ kpc = "idle"
    /\ alert_index = 0 /\ area_response = None /\ area_data = None
    /\ area_reading = Return(None) /\ arpc = "idle"
    /\ wgs_lon = 0 /\ wgs_lat = 0 /\ wgs_accepted = FALSE /\ wgs_xy = <<0, 0>>
    /\ result_valid = FALSE /\ wpc = "idle"

InitArea ==
    /\ alert_index \in 0..2
    /\ area_response = None /\ area_data = None
    /\ area_reading = Return(None) /\ arpc = "ready"
    /\ data = None /\ path = <<>> /\ keys = <<>> /\ ki = 0 /\ value = None
    /\ pc = "idle" /\ result = None /\ exc = NoExc
    /\ raw_value = None /\ current_year = None /\ now_year = 0
    /\ default_tz = Naive /\ date_value = <<>> /\ parsed_dt = None
    /\ fields = NoFields /\ dpc = "idle" /\ dret = None /\ dexc = NoExc
    /\ heap = <<>> /\ coords = 0 /\ from_system = "" /\ to_system = ""
    /\ cpc = "idle" /\ cret = 0 /\ cexc = NoError /\ projections = 0
    /\ vcoords = <<>> /\ coord_system = "" /\ vpc = "idle" /\ vret = FALSE
    /\ tm_lon = 0 /\ tm_lat = 0 /\ tm_xy = <<0, 0>> /\ tm_back = <<0, 0>>
    /\ tpc = "idle"
    /\ call_args = <<>> /\ parse_log = {} /\ convert_log = {} /\ ncalls = 0
    /\ user_input = [present |-> FALSE] /\ errors = {} /\ conversions = 0
    /\ lookups = 0 /\ entry_created = FALSE /\ fpc = "idle"
    /\ entity = "" /\ coordinator_data = None /\ device_class = ""
    /\ value_translation = FALSE
    /\ today = [year |-> 0, month |-> 0, day |-> 0] /\ ha_zone = Naive
    /\ read_prop = "" /\ reading = Return(None) /\ device_available = TRUE
    /\ last_update_success = TRUE /\ available_seen = {} /\ spc = "idle"
    /\ service_name = "" /\ available = TRUE /\ device_data = Dict(<<>>)
    /\ responses = <<>> /\ api_raised = NoExc /\ caught = NoExc
    /\ update_result = Return(None) /\ nupdates = 0 /\ upc = "idle"
    /\ entry_service = "" /\ device_session = "none" /\ session_closes = 0
    /\ coordinator_created = FALSE /\ record_stored = FALSE /\ hass_data = {}
    /\ setup_result = "none" /\ failed_step = "none" /\ login_result = "none"
    /\ unload_ok = "none" /\ nsetups = 0 /\ leaked = 0 /\ epc = "idle"
    /\ k_url = "" /\ k_credentials = FALSE /\ k_first = NoResponse
    /\ k_retry = NoResponse /\ k_login = "none" /\ k_requests = 0
    /\ k_logins = 0 /\ k_result = None /\ k_exc = NoExc /\ k_calls = 0
    /\ kpc = "idle"
    /\ a_codes = <<>> /\ a_payload = <<>> /\ a_status = NoResponse
    /\ a_error = NoExc /\ a_result = Return(None) /\ a_calls = 0
    /\ apc = "idle"
    /\ wgs_lon = 0 /\ wgs_lat = 0 /\ wgs_accepted = FALSE /\ wgs_xy = <<0, 0>>
    /\ result_valid = FALSE /\ wpc = "idle"

InitWgs ==
    /\ wgs_lon \in WgsLongitudes
    /\ wgs_lat \in WgsLatitudes
    /\ wgs_accepted = FALSE /\ wgs_xy = <<0, 0>> /\ result_valid = FALSE /\ wpc = "call"
    /\ data = None /\ path = <<>> /\ keys = <<>> /\ ki = 0 /\ value = None
    /\ pc = "idle" /\ result = None /\ exc = NoExc
    /\ raw_value = None /\ current_year = None /\ now_year = 0
    /\ default_tz = Naive /\ date_value = <<>> /\ parsed_dt = None
    /\ fields = NoFields /\ dpc = "idle" /\ dret = None /\ dexc = NoExc
    /\ heap = <<>> /\ coords = 0 /\ from_system = "" /\ to_system = ""
    /\ cpc = "idle" /\ cret = 0 /\ cexc = NoError /\ projections = 0
    /\ vcoords = <<>> /\ coord_system = "" /\ vpc = "idle" /\ vret = FALSE
    /\ tm_lon = 0 /\ tm_lat = 0 /\ tm_xy = <<0, 0>> /\ tm_back = <<0, 0>>
    /\ tpc = "idle"
    /\ call_args = <<>> /\ parse_log = {} /\ convert_log = {} /\ ncalls = 0
    /\ user_input = [present |-> FALSE] /\ errors = {} /\ conversions = 0
    /\ lookups = 0 /\ entry_created = FALSE /\ fpc = "idle"
    /\ entity = "" /\ coordinator_data = None /\ device_class = ""
    /\ value_translation = FALSE
    /\ today = [year |-> 0, month |-> 0, day |-> 0] /\ ha_zone = Naive
    /\ read_prop = "" /\ reading = Return(None) /\ device_available = TRUE
    /\ last_update_success = TRUE /\ available_seen = {} /\ spc = "idle"
    /\ service_name = "" /\ available = TRUE /\ device_data = Dict(<<>>)
    /\ responses = <<>> /\ api_raised = NoExc /\ caught = NoExc
    /\ update_result = Return(None) /\ nupdates = 0 /\ upc = "idle"
    /\ entry_service = "" /\ device_session = "none" /\ session_closes = 0
    /\ coordinator_created = FALSE /\ record_stored = FALSE /\ hass_data = {}
    /\ setup_result = "none" /\ failed_step = "none" /\ login_result = "none"
    /\ unload_ok = "none" /\ nsetups = 0 /\ leaked = 0 /\ epc = "idle"
    /\ k_url = "" /\ k_credentials = FALSE /\ k_first = NoResponse
    /\ k_retry = NoResponse /\ k_login = "none" /\ k_requests = 0
    /\ k_logins = 0 /\ k_result = None /\ k_exc = NoExc /\ k_calls = 0
    /\ kpc = "idle"
    /\ a_codes = <<>> /\ a_payload = <<>> /\ a_status = NoResponse
    /\ a_error = NoExc /\ a_result = Return(None) /\ a_calls = 0
    /\ apc = "idle"
    /\ alert_index = 0 /\ area_response = None /\ area_data = None
    /\ area_reading = Return(None) /\ arpc = "idle"

SpecPath == InitPath /\ [][PathNext]_vars

SpecDate == InitDate /\ [][DateNext]_vars

SpecCoord == InitCoord /\ [][CoordNext]_vars

SpecValidate == InitValidate /\ [][ValidateNext]_vars

SpecTm == InitTm /\ [][TmNext]_vars

SpecPure == InitPure /\ [][PureNext]_vars

SpecFlow == InitFlow /\ [][FlowNext]_vars

SpecSensor == InitSensor /\ [][SensorNext]_vars

SpecDevice == InitDevice /\ [][DeviceNext]_vars

SpecEntry == InitEntry /\ [][EntryNext]_vars

SpecKepco == InitKepco /\ [][KepcoNext]_vars

SpecAlertApi == InitAlertApi /\ [][AlertApiNext]_vars

SpecArea == InitArea /\ [][AreaNext]_vars

SpecWgs == InitWgs /\ [][WgsNext]_vars

(***************************************************************************)
(* Properties of get_value_from_path.                                      *)
(***************************************************************************)
PathDone == pc \in {"returned", "raised"}

\* the outcome of the finished call, comparable with Resolve's
Outcome == [kind |-> IF pc = "raised" THEN "raise" ELSE "return",
            v |-> IF pc = "raised" THEN None ELSE result,
            exc |-> exc]

SameOutcome(o) == o.kind = Outcome.kind /\ o.v = Outcome.v /\ o.exc = Outcome.exc

\* the key names and indices the properties range over
ClaimNames == KeyNames \cup {<<>>, <<"b">>, <<"-">>}
ClaimIndices == (0 - MaxListLen - 1)..MaxListLen

BracketPath(k, i) == k \o <<"[">> \o IntToStr(i) \o <<"]">>
DotPath(k, i) == k \o <<".">> \o IntToStr(i)

\* C1: get_value_from_path never raises: for every structure and every path
\* string the call returns a value or None and propagates no exception.
C1_NeverRaises == pc # "raised"

\* C2: for a mapping whose key name holds a sequence of length n, the segment
\* name[i] yields element i when 0 <= i < n, element n+i when -n <= i < 0, and
\* None when i is out of range; it yields None when name holds no sequence or
\* the current value is no mapping.
C2_BracketIndex ==
    [][\A name \in ClaimNames : \A i \in ClaimIndices :
         (InLoop /\ keys[ki] = BracketPath(name, i)) =>
            IF IsDict(value) /\ name \in DOMAIN value.v /\ value.v[name].t = "list"
            THEN LET seq == value.v[name].v
                     n == Len(seq)
                 IN IF 0 <= i /\ i < n THEN pc' = "loop" /\ value' = seq[i + 1]
                    ELSE IF 0 - n <= i /\ i < 0 THEN pc' = "loop" /\ value' = seq[n + i + 1]
                    ELSE pc' = "returned" /\ result' = None
            ELSE pc' = "returned" /\ result' = None]_vars

\* C2 witness: a one-segment path name[i] with a negative i has returned the
\* element n+i of the sequence.
C2_Witness ==
    \E name \in ClaimNames : \E i \in ClaimIndices :
        /\ pc = "returned"
        /\ path = BracketPath(name, i)
        /\ i < 0
        /\ IsDict(data) /\ name \in DOMAIN data.v /\ data.v[name].t = "list"
        /\ Len(data.v[name].v) = MaxListLen
        /\ 0 - Len(data.v[name].v) <= i
        /\ result = data.v[name].v[Len(data.v[name].v) + i + 1]
        /\ result # None

\* C3: if resolving a path p yields None, resolving p + "." + q yields None
\* for every suffix q, and no segment of q is evaluated.
C3_NullShortCircuit ==
    PathDone =>
        \A k \in 1..(Len(keys) - 1) :
            LET p == Resolve(data, JoinDots(SubSeq(keys, 1, k)))
            IN (p.kind = "return" /\ p.v = None) =>
                  pc = "returned" /\ result = None /\ ki - 1 <= k

\* C3 witness: the first segment resolved to None, the second one is a segment
\* whose evaluation would raise, and the call returned None.
C3_Witness ==
    /\ pc = "returned"
    /\ Len(keys) >= 2
    /\ keys[2] = <<"-", "-", "1">>
    /\ Resolve(data, keys[1]).kind = "return"
    /\ Resolve(data, keys[1]).v = None
    /\ data # None
    /\ result = None

\* C4 as stated: for every data, every key name k and every integer i,
\* resolving k[i] and resolving k.i give the same outcome.
C4_DotEqualsBracket ==
    PathDone =>
        \A k \in ClaimNames : \A i \in ClaimIndices :
            path = BracketPath(k, i) => SameOutcome(Resolve(data, DotPath(k, i)))

\* C4 amended: the same, for the key names k that contain neither "." nor "["
\* and for which k.lstrip("-") is not a digit string.
C4_DotEqualsBracketAmended ==
    PathDone =>
        \A k \in ClaimNames : \A i \in ClaimIndices :
            (/\ path = BracketPath(k, i)
             /\ ~Contains(k, ".") /\ ~Contains(k, "[")
             /\ ~IsDigit(LStrip(k, "-")))
                => SameOutcome(Resolve(data, DotPath(k, i)))

\* C4 witness: a[i] with a negative i returned an element, as a.i does.
C4_Witness ==
    \E i \in ClaimIndices :
        /\ pc = "returned"
        /\ i < 0
        /\ path = BracketPath(<<"a">>, i)
        /\ result # None
        /\ Resolve(data, DotPath(<<"a">>, i)).v = result

(***************************************************************************)
(* Properties of parse_date_value.                                         *)
(***************************************************************************)
DateDone == dpc \in {"returned", "raised"}

RawIsStr == raw_value.t = "str"

\* the trimmed input matches pattern k
MatchesPattern(k) == Match(Pattern(k), Strip(raw_value.v)).ok

\* the locals pattern k sets from the trimmed input it matches
CapturedFields(k) ==
    PatternFields(k, GroupInts(Match(Pattern(k), Strip(raw_value.v))), current_year.v)

FieldsValid(f) == ValidDateTime(f.year, f.month, f.day, f.hour, f.minute, f.second)

\* C5: parse_date_value returns None, and raises nothing, for every non-string
\* input and for every string that after trimming matches none of the 13
\* patterns, the empty string included.
C5_NoMatchIsNone ==
    (DateDone /\ (~RawIsStr \/ \A k \in Patterns : ~MatchesPattern(k)))
        => dpc = "returned" /\ dret = None

\* C5 witness: a string that is a date followed by one more character matched
\* no pattern and the call returned None.
C5_Witness ==
    /\ dpc = "returned"
    /\ RawIsStr
    /\ Len(Strip(raw_value.v)) > 10
    /\ \A k \in Patterns : ~MatchesPattern(k)
    /\ dret = None

\* C6: for every one of the 13 patterns, a string that matches the pattern and
\* whose captured numbers are no valid calendar date or time makes
\* parse_date_value return None; no exception reaches the caller.
C6_InvalidIsNone ==
    (DateDone /\ RawIsStr) =>
        \A k \in Patterns :
            (MatchesPattern(k) /\ ~FieldsValid(CapturedFields(k)))
                => dpc = "returned" /\ dret = None

\* C6 witness: pattern 1 matched 30 February and the call returned None.
C6_Witness ==
    /\ dpc = "returned"
    /\ RawIsStr
    /\ MatchesPattern(1)
    /\ CapturedFields(1).month = 2
    /\ CapturedFields(1).day = 30
    /\ dret = None

FullDatePatterns == {1, 2, 3, 4, 9, 11, 12}
YearMonthPatterns == {5, 6, 7, 10}

\* C7: for every string matching a full-date pattern with a valid calendar
\* date the returned timestamp has the captured year, month and day; for
\* every string matching a year-month pattern it has the captured year and
\* month and day 1.
C7_DateFieldsKept ==
    (DateDone /\ RawIsStr) =>
        \A k \in FullDatePatterns \cup YearMonthPatterns :
            (MatchesPattern(k) /\ FieldsValid(CapturedFields(k))) =>
                /\ dpc = "returned"
                /\ dret # None
                /\ dret.year = CapturedFields(k).year
                /\ dret.month = CapturedFields(k).month
                /\ dret.day = (IF k \in YearMonthPatterns THEN 1 ELSE CapturedFields(k).day)

\* C8: whichever pattern matched, the timestamp handed to the final
\* localisation step is timezone-aware and carries the zone Asia/Seoul; no
\* pattern produces one that is naive or tagged with another zone.
C8_SeoulBeforeLocalise ==
    (dpc = "final" /\ parsed_dt # None) =>
        parsed_dt.tzinfo # Naive /\ parsed_dt.tzinfo.zone = "Asia/Seoul"

(***************************************************************************)
(* Properties of convert_coordinates.                                      *)
(***************************************************************************)
Supported(from, to) ==
    \/ from = "WGS84" /\ to = "WCONGNAMUL"
    \/ from = "WCONGNAMUL" /\ to = "WGS84"

\* C9: convert_coordinates(c, S, S) returns, for every label S, a dict equal to
\* c that is a distinct copy (mutating the result does not change c), and runs
\* no projection.
C9_IdentityIsCopy ==
    [][/\ (cpc = "call" /\ from_system = to_system) =>
            /\ cpc' = "returned"
            /\ cret' # coords
            /\ heap'[cret'] = heap[coords]
            /\ heap'[coords] = heap[coords]
            /\ projections' = 0
       /\ (cpc = "returned" /\ from_system = to_system) =>
            /\ heap'[coords] = heap[coords]
            /\ projections' = 0]_vars

\* C9 witness: the copy returned for the pair (BESSEL, BESSEL) has been
\* changed by the caller and the argument still has its value.
C9_Witness ==
    /\ cpc = "mutated"
    /\ from_system = "BESSEL"
    /\ to_system = "BESSEL"
    /\ cret # coords
    /\ heap[cret] # heap[coords]
    /\ DOMAIN heap[coords] = {"x", "y"}

\* the message names the system
Names(msg, system) == \E i \in 1..Len(msg) : msg[i] = system

\* C10: for every pair of different systems that is neither (WGS84,
\* WCONGNAMUL) nor (WCONGNAMUL, WGS84), convert_coordinates raises ValueError
\* with a message naming both systems and returns no coordinate.
C10_UnsupportedRaises ==
    (cpc # "call" /\ cpc # "idle" /\ from_system # to_system
        /\ ~Supported(from_system, to_system))
        => /\ cpc = "raised"
           /\ cexc.type = "ValueError"
           /\ Names(cexc.msg, from_system)
           /\ Names(cexc.msg, to_system)
           /\ cret = 0
           /\ Len(heap) = 1

\* C10 witness: the pair (WCONGNAMUL, BESSEL) raised.
C10_Witness ==
    /\ cpc = "raised"
    /\ from_system = "WCONGNAMUL"
    /\ to_system = "BESSEL"
    /\ cexc.type = "ValueError"

(***************************************************************************)
(* Properties of validate_coordinates.                                     *)
(***************************************************************************)
\* the longitude and latitude the WGS84 branch reads from a dict
ReadLongitude(d) ==
    IF "longitude" \in DOMAIN d THEN d["longitude"]
    ELSE IF "x" \in DOMAIN d THEN d["x"] ELSE 0

ReadLatitude(d) ==
    IF "latitude" \in DOMAIN d THEN d["latitude"]
    ELSE IF "y" \in DOMAIN d THEN d["y"] ELSE 0

\* C11: validate_coordinates(coords, 'WGS84') returns True exactly when
\* 124.0 <= longitude <= 132.0 and 33.0 <= latitude <= 39.0, bounds included,
\* the two read from 'longitude'/'latitude', else from 'x'/'y', else 0.
C11_Wgs84Range ==
    (vpc = "returned" /\ coord_system = "WGS84") =>
        (vret = TRUE <=>
            /\ 12400 <= ReadLongitude(vcoords) /\ ReadLongitude(vcoords) <= 13200
            /\ 3300 <= ReadLatitude(vcoords) /\ ReadLatitude(vcoords) <= 3900)

\* C11 witness: the corner (124.0, 33.0), read through the x/y fallback, is
\* accepted.
C11_Witness ==
    /\ vpc = "returned" /\ coord_system = "WGS84"
    /\ DOMAIN vcoords = {"x", "y"}
    /\ vcoords["x"] = 12400 /\ vcoords["y"] = 3300
    /\ vret = TRUE

\* C12: validate_coordinates(coords, 'WCONGNAMUL') returns True exactly when
\* 100000 <= x <= 600000 and 1000000 <= y <= 1500000, bounds included (a
\* missing key reads as 0), and every other label than 'WGS84' and
\* 'WCONGNAMUL' gives False.
C12_WcongnamulRange ==
    /\ (vpc = "returned" /\ coord_system = "WCONGNAMUL") =>
          (vret = TRUE <=>
              /\ "x" \in DOMAIN vcoords /\ "y" \in DOMAIN vcoords
              /\ 10000000 <= vcoords["x"] /\ vcoords["x"] <= 60000000
              /\ 100000000 <= vcoords["y"] /\ vcoords["y"] <= 150000000)
    /\ (vpc = "returned" /\ coord_system \notin {"WGS84", "WCONGNAMUL"}) =>
          vret = FALSE

\* C12 witness: the corner (600000, 1500000) is accepted.
C12_Witness ==
    /\ vpc = "returned" /\ coord_system = "WCONGNAMUL"
    /\ "x" \in DOMAIN vcoords /\ "y" \in DOMAIN vcoords
    /\ vcoords["x"] = 60000000 /\ vcoords["y"] = 150000000
    /\ vret = TRUE

(***************************************************************************)
(* Properties of the transverse Mercator projection.                       *)
(***************************************************************************)
\* C13: for every longitude in [124, 132] and latitude in [33, 39],
\* _tm_to_geodetic(_geodetic_to_tm(lon, lat)) is within 1e-4 degrees of
\* (lon, lat) in each component (100 micro-degrees).
C13_RoundTrip ==
    tpc = "recovered" =>
        /\ Abs(tm_back[1] - tm_lon) <= 100
        /\ Abs(tm_back[2] - tm_lat) <= 100

\* C14: the projection origin (127.0, 38.0) is mapped to exactly the false
\* easting and northing (200000, 500000).
C14_OriginFixed ==
    (/\ tpc \in {"projected", "recovered"}
     /\ tm_lon = KOREA_TM_CENTRAL.longitude_of_origin
     /\ tm_lat = KOREA_TM_CENTRAL.latitude_of_origin) =>
        tm_xy = <<KOREA_TM_CENTRAL.false_easting, KOREA_TM_CENTRAL.false_northing>>

\* C14 witness: the origin has been projected, onto (200000, 500000).
C14_Witness ==
    /\ tpc = "projected"
    /\ tm_lon = 127000000 /\ tm_lat = 38000000
    /\ tm_xy = <<200000, 500000>>

(***************************************************************************)
(* Properties of a sequence of calls.                                      *)
(***************************************************************************)
\* two results of parse_date_value are equal as Python compares them: both
\* None, or the same instant
SameResult(a, b) ==
    IF a = None \/ b = None THEN a = b
    ELSE AsTimezone(a, Tz("UTC", "zoneinfo")) = AsTimezone(b, Tz("UTC", "zoneinfo"))

\* C15: two calls of parse_date_value with the same raw string and
\* current_year return the same result, two calls of convert_coordinates with
\* the same arguments have the same outcome, whatever happened in between,
\* and no call of convert_coordinates changes the dict it was given.
C15_Deterministic ==
    /\ \A a \in parse_log : \A b \in parse_log :
          a.args = b.args => SameResult(a.out, b.out)
    /\ \A a \in convert_log : \A b \in convert_log :
          a.args = b.args => (a.raised = b.raised /\ a.out = b.out /\ a.exc = b.exc)
    /\ \A a \in convert_log : a.arg_after = a.args[1]

(***************************************************************************)
(* Properties of the KakaoMap configuration step.                          *)
(***************************************************************************)
BothInKorea ==
    /\ 12400 <= user_input.start_x /\ user_input.start_x <= 13200
    /\ 3300 <= user_input.start_y /\ user_input.start_y <= 3900
    /\ 12400 <= user_input.end_x /\ user_input.end_x <= 13200
    /\ 3300 <= user_input.end_y /\ user_input.end_y <= 3900

\* C16: with coord_system 'WGS84', convert_coordinates is called only if the
\* start and the end coordinate are both in the valid WGS84 range; if either
\* is not, there is no conversion, no address lookup and no config entry, and
\* the form is shown again with an error.
C16_ValidatedBeforeConversion ==
    (fpc # "idle" /\ user_input.present /\ user_input.coord_system = "WGS84") =>
        /\ conversions > 0 => BothInKorea
        /\ ~BothInKorea =>
              /\ conversions = 0 /\ lookups = 0 /\ ~entry_created
              /\ fpc \in {"start", "form"}
              /\ fpc = "form" => errors # {}

\* C16 witness: a valid start and an end just outside the range were
\* submitted, and the form is shown again.
C16_Witness ==
    /\ fpc = "form"
    /\ user_input.present /\ user_input.numeric
    /\ user_input.coord_system = "WGS84"
    /\ user_input.start_x = 12400 /\ user_input.start_y = 3900
    /\ user_input.end_x = 13201 /\ user_input.end_y = 3900
    /\ errors = {"end_x"}
    /\ conversions = 0 /\ lookups = 0 /\ ~entry_created

(***************************************************************************)
(* Properties of the entities that read dates.                             *)
(***************************************************************************)
\* the raw value KoreaSensor.native_value resolves, None when there is none
ResolvedRaw ==
    IF Falsy(coordinator_data) \/ Falsy(GetD(coordinator_data, "recent_usage", None))
    THEN None
    ELSE Resolve(GetD(coordinator_data, "recent_usage", None), <<"a">>).v

\* the text is a string that parse_date_value turns into None
Unparsed(v) ==
    /\ v # None /\ v.t = "str"
    /\ ParseDateValue(v, None, today.year, ha_zone) = None

\* one of the alerts the safety alert entity reads has a REGIST_DT that
\* parse_date_value turns into None
SomeAlertUnparsed ==
    /\ ~Falsy(coordinator_data)
    /\ "parsed_data" \in DOMAIN coordinator_data.v
    /\ LET list == AlertList(coordinator_data, List(<<>>)).v
       IN \E i \in 1..Len(list) : Unparsed(GetD(list[i], "REGIST_DT", None))

\* C17: when parse_date_value returns None for the entity's raw date string,
\* KoreaSensor.native_value (device class DATE or TIMESTAMP) returns None and
\* SafetyAlertSensor.is_on and .extra_state_attributes return without raising.
C17_NullDateIsAbsent ==
    /\ (/\ spc = "read" /\ read_prop = "native_value"
        /\ ~value_translation
        /\ device_class \in {"date", "timestamp"}
        /\ Unparsed(ResolvedRaw)) => reading = Return(None)
    /\ (/\ spc = "read" /\ read_prop \in {"is_on", "extra_state_attributes"}
        /\ SomeAlertUnparsed) => reading.kind = "return"

\* a text of the form YYYY-MM-DD HH:MM:SS with a valid date and time
IsDateTimeText(s) ==
    /\ Len(s) = 19
    /\ \A i \in {5, 8} : s[i] = "-"
    /\ s[11] = " "
    /\ \A i \in {14, 17} : s[i] = ":"
    /\ \A i \in (1..19) \ {5, 8, 11, 14, 17} : s[i] \in AsciiDigits
    /\ ValidDateTime(DigitsValue(SubSeq(s, 1, 4)), DigitsValue(SubSeq(s, 6, 7)),
                     DigitsValue(SubSeq(s, 9, 10)), DigitsValue(SubSeq(s, 12, 13)),
                     DigitsValue(SubSeq(s, 15, 16)), DigitsValue(SubSeq(s, 18, 19)))

\* C18: a KoreaSensor of device class TIMESTAMP whose raw value is a string
\* 'YYYY-MM-DD HH:MM:SS' (valid, no fractional seconds) has a datetime as its
\* native value.
C18_TimestampIsDatetime ==
    (/\ spc = "read" /\ read_prop = "native_value"
     /\ ~value_translation
     /\ device_class = "timestamp"
     /\ ResolvedRaw # None /\ ResolvedRaw.t = "str"
     /\ IsDateTimeText(ResolvedRaw.v)) =>
        (reading.kind = "return" /\ reading.v.t = "datetime")


(***************************************************************************)
(* Availability of an entity.                                              *)
(***************************************************************************)
\* C19: the available property of a KoreaSensor is True exactly when the
\* device reports available and the coordinator's last update succeeded,
\* whatever the two were before.
C19_AvailableIsConjunction ==
    (spc = "read" /\ read_prop = "available") =>
        reading = Return(Bool(device_available /\ last_update_success))

\* available has been read with only the device down and with only the
\* coordinator down, and now, both being up again, reads True
C19_Witness ==
    /\ spc = "read" /\ read_prop = "available"
    /\ <<FALSE, TRUE>> \in available_seen
    /\ <<TRUE, FALSE>> \in available_seen
    /\ reading = Return(Bool(TRUE))


(***************************************************************************)
(* Availability of a device.                                               *)
(***************************************************************************)
\* the last call of async_update is over and each of its requests returned
AllRequestsSucceeded ==
    /\ upc = "idle" /\ nupdates > 0
    /\ api_raised = NoExc
    /\ Len(responses) = Requests(service_name)

\* the last call of async_update is over and one of its requests raised an
\* exception of its API client (a cancelled call is left aside)
SomeRequestRaised ==
    upc = "idle" /\ nupdates > 0 /\ api_raised \notin {NoExc, "CancelledError"}

\* C20: the available flag of a device is True before the first call of
\* async_update, True after every call whose API requests all succeeded and
\* False after every call in which a request raised; a call that fails
\* surfaces as UpdateFailed.
C20_AvailableFollowsRequests ==
    /\ nupdates = 0 => available
    /\ AllRequestsSucceeded => available /\ update_result = Return(None)
    /\ SomeRequestRaised => ~available /\ update_result = Raise("UpdateFailed")


(***************************************************************************)
(* The life cycle of a config entry.                                       *)
(***************************************************************************)
\* the last call of async_setup_entry is over
SetupEnded == nsetups > 0 /\ epc \in {"idle", "loaded"} /\ setup_result # "none"

\* C21: when the initial login or the initial data fetch of a setup fails,
\* async_setup_entry returns False, has closed the device's session exactly
\* once, created no coordinator and stored nothing in hass.data[DOMAIN]; an
\* unknown service returns False and stores nothing.
C21_FailedSetupCleansUp ==
    /\ (SetupEnded /\ (login_result \in {"False", "raised"} \/ failed_step = "update")) =>
          /\ setup_result = "False"
          /\ session_closes = 1 /\ device_session = "closed"
          /\ ~coordinator_created /\ ~record_stored
    /\ (SetupEnded /\ entry_service = "unknown") =>
          (setup_result = "False" /\ ~record_stored)

\* C30: a setup that ends without returning True has closed the session it
\* opened and left no record of the entry in hass.data[DOMAIN]; an unload
\* that returns True has removed the record and closed the session, one that
\* returns False has touched neither.
C30_NoSessionLeak ==
    /\ (SetupEnded /\ setup_result # "True") =>
          (device_session # "open" /\ hass_data = {})
    /\ unload_ok = "True" => (hass_data = {} /\ device_session = "closed")
    /\ unload_ok = "False" => (hass_data = {"entry"} /\ device_session = "open")

\* the first response of the call had an authentication status
FirstWasAuth == k_first \in {401, 403}

\* authentication could not be restored: the re-login failed, or the request
\* after it was answered 401 or 403 again
AuthNotRestored ==
    FirstWasAuth /\ (k_login \in {"False", "RequestsError"} \/ k_retry \in {401, 403})

\* C22: a call of _request that was answered 401 or 403 and could not restore
\* the authentication (the re-login fails, or the retried request is again
\* answered 401 or 403) raises KepcoAuthError.
C22_AuthErrorRaised ==
    (kpc \in {"returned", "raised"} /\ AuthNotRestored) =>
        (kpc = "raised" /\ k_exc = "KepcoAuthError")

\* C25: within one call of _request the re-login is attempted at most once and
\* only after a first response with status 401 or 403; the request is sent
\* again at most once and only after the re-login returned True; the call
\* sends at most two requests and one login, has a next step while it runs,
\* and ends with a parsed result or with an exception.
C25_BoundedReLogin ==
    /\ k_logins <= 1 /\ k_requests <= 2
    /\ k_logins = 1 => FirstWasAuth
    /\ k_requests = 2 => k_login = "True"
    /\ k_retry # NoResponse => k_requests = 2
    /\ kpc \in {"request", "login", "retry"} =>
          ENABLED (FirstRequest \/ ReLogin \/ RetryRequest)
    /\ kpc = "returned" => (k_result.t = "dict" /\ k_exc = NoExc)
    /\ kpc = "raised" => (k_result = None /\ k_exc # NoExc)

\* a call that logged in again, sent the request again and returned its result
C25_Witness ==
    kpc = "returned" /\ k_requests = 2 /\ k_logins = 1 /\ FirstWasAuth

\* the request of the finished call failed: a status other than 200, or a
\* client error of the transport
AlertRequestFailed ==
    /\ apc = "ended"
    /\ \/ a_status \notin {NoResponse, TransportError, 200}
       \/ a_status = TransportError /\ IsClientError(a_error)

\* C23: async_get_safety_alerts raises SafetyAlertConnectionError whenever the
\* response status is not 200 or the transport fails with a client error; it
\* never ends such a call with a normal (empty) result.
C23_FailureIsRaised ==
    AlertRequestFailed => a_result = Raise("SafetyAlertConnectionError")

\* the raw value a KoreaSensor without value translation resolves: the string
\* at recent_usage.a of the coordinator's data (None when there is none)
ResolvedString ==
    IF /\ entity = "KoreaSensor" /\ ~value_translation
       /\ coordinator_data # None
       /\ "recent_usage" \in DOMAIN coordinator_data.v
       /\ <<"a">> \in DOMAIN coordinator_data.v["recent_usage"].v
       /\ coordinator_data.v["recent_usage"].v[<<"a">>].t = "str"
    THEN coordinator_data.v["recent_usage"].v[<<"a">>]
    ELSE None

\* the first maximal run of characters of the class in s, as positions
\* <<from, to>>; <<0, 0>> when s has no such character
MaximalRun(s, class) ==
    IF \A i \in 1..Len(s) : s[i] \notin class THEN <<0, 0>>
    ELSE LET from == CHOOSE i \in 1..Len(s) :
                        s[i] \in class /\ \A j \in 1..(i - 1) : s[j] \notin class
             to == CHOOSE k \in from..Len(s) :
                      /\ \A j \in from..k : s[j] \in class
                      /\ k = Len(s) \/ s[k + 1] \notin class
         IN <<from, to>>

\* the digits of that run, in order
RunDigits(s, class) ==
    LET run == MaximalRun(s, class)
    IN SelectSeq(SubSeq(s, run[1], run[2]), LAMBDA c : c \in DecimalChars)

HasDigit(s) == \E i \in 1..Len(s) : s[i] \in DecimalChars

NumericClasses == {"monetary", "distance", "gas", "water"}

NativeValueRead == spc = "read" /\ read_prop = "native_value" /\ ResolvedString # None

\* C24 as stated: with a device class MONETARY, DISTANCE, GAS or WATER and a
\* raw string that contains a digit, native_value is the integer of the first
\* maximal run of digits and commas, commas removed; with DURATION the integer
\* of the first run of digits; with no device class the raw string.
C24_NumberFromString ==
    NativeValueRead =>
        /\ (device_class \in NumericClasses /\ HasDigit(ResolvedString.v)) =>
              reading = Return(Num(DigitsValue(
                            RunDigits(ResolvedString.v, DecimalChars \cup {","}))))
        /\ (device_class = "duration" /\ HasDigit(ResolvedString.v)) =>
              reading = Return(Num(DigitsValue(RunDigits(ResolvedString.v, DecimalChars))))
        /\ device_class = "none" => reading = Return(ResolvedString)

\* C24 amended: the integer is read from the first maximal run of digits and
\* commas when that run contains a digit; when it consists of commas only
\* native_value is None, also if digits follow later in the string.
C24_NumberFromStringAmended ==
    NativeValueRead =>
        /\ (device_class \in NumericClasses /\ HasDigit(ResolvedString.v)) =>
              IF RunDigits(ResolvedString.v, DecimalChars \cup {","}) # <<>>
              THEN reading = Return(Num(DigitsValue(
                                RunDigits(ResolvedString.v, DecimalChars \cup {","}))))
              ELSE reading = Return(None)
        /\ (device_class = "duration" /\ HasDigit(ResolvedString.v)) =>
              reading = Return(Num(DigitsValue(RunDigits(ResolvedString.v, DecimalChars))))
        /\ device_class = "none" => reading = Return(ResolvedString)

\* a read that took the number 1550 out of "1,550w"
C24_Witness ==
    /\ NativeValueRead /\ device_class \in NumericClasses
    /\ ResolvedString = Str(<<"1", ",", "5", "5", "0", "w">>)
    /\ reading = Return(Num(1550))

\* the alerts of the last response, and the text of the alert the sensor shows
AreaAlertsGot == area_response.v["disasterSmsList"].v

AreaAlertExists == area_response # None /\ Len(AreaAlertsGot) > alert_index

AreaText == AreaAlertsGot[alert_index + 1].v["RCV_AREA_NM"]

\* C26: a reception-area sensor read on the data SafetyAlertDevice.async_update
\* produced shows the RCV_AREA_NM text of its alert whenever that alert exists
\* and the text is shorter than 250 characters, and shows the word for "all"
\* only when the text has 250 or more characters.
C26_AreaShown ==
    (arpc = "read" /\ AreaAlertExists) =>
        /\ Len(AreaText.v) < AreaLimit => area_reading = Return(AreaText)
        /\ area_reading = Return(Whole) => Len(AreaText.v) >= AreaLimit

\* C27: for every coordinate that validate_coordinates(c, 'WGS84') accepts,
\* the result of convert_coordinates(c, 'WGS84', 'WCONGNAMUL') is accepted by
\* validate_coordinates(result, 'WCONGNAMUL'): x in [100000, 600000] and y in
\* [1000000, 1500000].
C27_ConversionPreservesValidity ==
    (wpc = "checked" /\ wgs_accepted) =>
        /\ result_valid
        /\ 100000 <= wgs_xy[1] /\ wgs_xy[1] <= 600000
        /\ 1000000 <= wgs_xy[2] /\ wgs_xy[2] <= 1500000

\* the call of async_update that was running has ended with an exception
UpdateFailedNow == upc = "await" /\ upc' = "idle" /\ update_result'.kind = "raise"

\* ... has ended without one
UpdateSucceededNow == upc = "await" /\ upc' = "idle" /\ update_result'.kind = "return"

\* C28: self.data changes only at the successful end of an update, and then
\* to the data assembled from all responses of that update; a step that
\* leaves the update running, and one that ends it with a failure, leave
\* self.data as it was.  So after any sequence of updates the data is that
\* of the most recent successful update, or the initial value.
C28_FailedUpdateKeepsData ==
    /\ [][/\ UpdateFailedNow => device_data' = device_data
          /\ upc' = "await" => device_data' = device_data
          /\ UpdateSucceededNow =>
                device_data' = BuildData(service_name, responses').v]_vars
    /\ []((upc = "idle" /\ nupdates > 0 /\ update_result.kind = "return") =>
             device_data = BuildData(service_name, responses).v)
    /\ []((nupdates = 1 /\ (upc = "await" \/ update_result.kind = "raise")) =>
             device_data = Dict(<<>>))

\* a second update failed in a later request, after a first one had
\* succeeded: the data is still that of the first
C28_Witness ==
    /\ nupdates = 2 /\ upc = "idle" /\ update_result = Raise("UpdateFailed")
    /\ api_raised \in ApiErrors(service_name) /\ Len(responses) >= 1
    /\ device_data # Dict(<<>>)

\* the patterns the trimmed input matches
Matching == {k \in Patterns : MatchesPattern(k)}

\* the 13 pattern blocks tried in the given order on the trimmed text; a
\* matched pattern whose numbers are no calendar date either ends the call
\* with None (as the code does) or is passed over like one that did not match
RECURSIVE ParseInOrder(_, _, _, _, _)
ParseInOrder(text, order, cy, tz, stop_on_invalid) ==
    IF Len(order) = 0 THEN None
    ELSE LET k == Head(order)
             m == Match(Pattern(k), text)
             f == PatternFields(k, GroupInts(m), cy)
             made == PyDatetime(f.year, f.month, f.day, f.hour, f.minute, f.second,
                                PatternTz(k))
         IN IF ~m.ok THEN ParseInOrder(text, Tail(order), cy, tz, stop_on_invalid)
            ELSE IF made.ok THEN AsLocal(made.dt, tz)
            ELSE IF stop_on_invalid THEN None
            ELSE ParseInOrder(text, Tail(order), cy, tz, stop_on_invalid)

\* the order of the code, and the same patterns from the last to the first
CodeOrder == [i \in 1..13 |-> i]

ReverseOrder == [i \in 1..13 |-> 14 - i]

\* C29: the 13 anchored patterns are pairwise disjoint: no trimmed input
\* matches more than one of them; so the result of the call is the same when
\* the patterns are tried in the reverse order, and the same when a matched
\* pattern with an invalid calendar date is treated as non-matching instead
\* of ending the call with None.
C29_PatternsDisjoint ==
    (dpc = "returned" /\ RawIsStr) =>
        /\ Cardinality(Matching) <= 1
        /\ \A order \in {CodeOrder, ReverseOrder}, stop_on_invalid \in BOOLEAN :
              dret = ParseInOrder(Strip(raw_value.v), order, current_year.v, default_tz,
                                  stop_on_invalid)

\* the call returned None at once for a matched pattern whose numbers are no
\* calendar date
C29_Witness ==
    /\ dpc = "returned" /\ RawIsStr /\ dret = None
    /\ \E k \in Patterns : MatchesPattern(k) /\ ~FieldsValid(CapturedFields(k))

====
